---- MODULE Spec2Model ----
(***************************************************************************)
(* Playback scheduling and synchronisation engine of playlist_player.py:   *)
(* the fairness queue (RandomPlayer._fill_queue, _play_next_from_queue),   *)
(* the catalog synchroniser (RandomPlayer.load_playlists), the autoplay    *)
(* timer (RandomPlayer._start_autoplay_timer, pause_playback,              *)
(* _on_track_end) and the playback session (play_track, stop_current).     *)
(*                                                                         *)
(* Time is counted in ticks of 0.05 s.  An Optional[float] that is None is *)
(* written None (-1); a Track duration that is None or 0 is written 0,     *)
(* because the code only ever tests it with `if track.duration`.           *)
(* The provider lists hold no track twice.                                 *)
(***************************************************************************)
EXTENDS Integers, Sequences, FiniteSets, TLC

\* ------------------------------------------------------------- bounds
MaxPlays == 3
InitMaxCount == 1
MaxTime == 6
MaxTimers == 2
MaxThreadPlays == 2
MaxQueue == 4
MaxHalfSeconds == 110

\* ---------------------------------------------------- program constants
\* max(0.1, remaining) of pause_playback, in ticks of 0.05 s
MinRemaining == 2

None == -1
NoTimer == 0
NoTitle == ""
NoPlatform == "none"

\* ------------------------------------------------------------- tracks
\* dataclass Track: title, artist, platform, url, uri, duration
TrackA == [title |-> "A", artist |-> "a", platform |-> "youtube", url |-> "yt/A", uri |-> "", duration |-> 4]
TrackB == [title |-> "B", artist |-> "b", platform |-> "youtube", url |-> "yt/B", uri |-> "", duration |-> 0]
TrackC == [title |-> "C", artist |-> "c", platform |-> "spotify", url |-> "sp/C", uri |-> "spotify:track:C", duration |-> 5]
NoTrack == [title |-> "", artist |-> "", platform |-> "none", url |-> "", uri |-> "", duration |-> 0]

Tracks == {TrackA, TrackB, TrackC}

\* TrackKey as it would be if the url came before the uri
TrackKeyUrlFirst(t) ==
    IF t.url # "" THEN t.url
    ELSE IF t.uri # "" THEN t.uri
    ELSE t.platform \o ":" \o t.title \o " - " \o t.artist

\* RandomPlayer._track_key: uri, else url, else "platform:title - artist"
TrackKey(t) ==
    IF t.uri # "" THEN t.uri
    ELSE IF t.url # "" THEN t.url
    ELSE t.platform \o ":" \o t.title \o " - " \o t.artist

Keys == {TrackKey(t) : t \in Tracks}

\* ------------------------------------------------------- list helpers
Range(s) == {s[i] : i \in 1..Len(s)}

Urls(s) == {s[i].url : i \in 1..Len(s)}

\* list.pop(i) with a 0-based index i: the list without that element
PopAt(s, i) == SubSeq(s, 1, i) \o SubSeq(s, i + 2, Len(s))

\* list.insert(i, x) with a 0-based index i >= 0 (an index past the end appends)
InsertAt(s, i, x) ==
    LET k == IF i > Len(s) THEN Len(s) ELSE i
    IN SubSeq(s, 1, k) \o <<x>> \o SubSeq(s, k + 1, Len(s))

\* every order random.shuffle can leave a list in
Shuffles(s) ==
    {[i \in 1..Len(s) |-> s[p[i]]] : p \in {f \in [1..Len(s) -> 1..Len(s)] : \A i, j \in 1..Len(s) : f[i] = f[j] => i = j}}

\* the duplicate-free lists a provider can return for one platform
PlaylistsOf(platform) ==
    LET own == {t \in Tracks : t.platform = platform}
    IN UNION {{s \in [1..n -> own] : \A i, j \in 1..n : s[i] = s[j] => i = j} : n \in 0..Cardinality(own)}

Min(a, b) == IF a < b THEN a ELSE b
Max(a, b) == IF a > b THEN a ELSE b

\* ------------------------------------------------------------- state
VARIABLES
    yt_provider, sp_provider,
    youtube_tracks, spotify_tracks, all_tracks,
    queue, play_counts, last_played,
    current_platform, youtube_playing, spotify_playing, current_track_title,
    autoplay_timer, autoplay_start_time, autoplay_duration, autoplay_remaining, autoplay_paused,
    timers, now, started, last, run,
    lock, pc, frame, actor, probe

providerVars == <<yt_provider, sp_provider>>
catalogVars == <<youtube_tracks, spotify_tracks, all_tracks>>
sessionVars == <<current_platform, youtube_playing, spotify_playing, current_track_title>>
threadVars == <<lock, pc, frame, actor>>
bookVars == <<autoplay_start_time, autoplay_duration, autoplay_remaining, autoplay_paused>>
timerVars == <<autoplay_timer, autoplay_start_time, autoplay_duration, autoplay_remaining, autoplay_paused, timers>>
vars ==
    <<yt_provider, sp_provider, youtube_tracks, spotify_tracks, all_tracks, queue, play_counts, last_played,
      current_platform, youtube_playing, spotify_playing, current_track_title,
      autoplay_timer, autoplay_start_time, autoplay_duration, autoplay_remaining, autoplay_paused,
      timers, now, started, last, run, lock, pc, frame, actor, probe>>

TimerIds == 1..MaxTimers

\* the record of a call of a routine that has a result and changes nothing:
\* its name, its arguments and what it returned
NoProbe == [fn |-> "none", args |-> <<>>, out |-> <<>>]

\* the threads that call into the player: the prompt loop of main, the Tk
\* thread of the Menu window, the refresh thread and the thread of a timer
\* whose wait is over
Contexts == {"main", "gui", "refresh", "timer"}
NoContext == "none"

\* the local variables of a context: the track it popped, the count it read
\* from the ledger, the filtered lists it fetched, the duration it is arming
\* a timer with, the indices i and j of random.shuffle, and whether the list
\* it holds a reference to is no longer the player's queue
NoFrame ==
    [track |-> NoTrack, count |-> 0, youtube |-> <<>>, spotify |-> <<>>, duration |-> None,
     i |-> 0, j |-> 0, detached |-> FALSE]

\* the record of the last operation: its name, two numbers about it (the
\* indices it was given, or how many queue entries a sync removed and added)
\* and, for a sync cycle and a queue edit, the queue it found
Did(op, a, b) ==
    [op |-> op, a |-> a, b |-> b,
     q0 |-> IF op \in {"sync", "load", "front", "drag", "shuffle"} THEN queue ELSE <<>>]

\* the record of a run of advance() calls that nothing else interrupts: whether
\* one is under way, how many calls it has seen, and the count that every
\* catalog track had when it began
NoRun == [active |-> FALSE, n |-> 0, base |-> 0]

\* ------------------------------------------------- the player object
\* The mutable attributes of RandomPlayer as one value, so that a routine that
\* calls other routines is the composition of their effects.
Self ==
    [youtube_tracks |-> youtube_tracks, spotify_tracks |-> spotify_tracks, all_tracks |-> all_tracks,
     queue |-> queue, play_counts |-> play_counts, last_played |-> last_played,
     current_platform |-> current_platform, youtube_playing |-> youtube_playing,
     spotify_playing |-> spotify_playing, current_track_title |-> current_track_title,
     autoplay_timer |-> autoplay_timer, autoplay_start_time |-> autoplay_start_time,
     autoplay_duration |-> autoplay_duration, autoplay_remaining |-> autoplay_remaining,
     autoplay_paused |-> autoplay_paused, timers |-> timers, ok |-> TRUE]

Install(s) ==
    /\ youtube_tracks' = s.youtube_tracks
    /\ spotify_tracks' = s.spotify_tracks
    /\ all_tracks' = s.all_tracks
    /\ queue' = s.queue
    /\ play_counts' = s.play_counts
    /\ last_played' = s.last_played
    /\ current_platform' = s.current_platform
    /\ youtube_playing' = s.youtube_playing
    /\ spotify_playing' = s.spotify_playing
    /\ current_track_title' = s.current_track_title
    /\ autoplay_timer' = s.autoplay_timer
    /\ autoplay_start_time' = s.autoplay_start_time
    /\ autoplay_duration' = s.autoplay_duration
    /\ autoplay_remaining' = s.autoplay_remaining
    /\ autoplay_paused' = s.autoplay_paused
    /\ timers' = s.timers

\* ------------------------------------------------------ autoplay timer
\* A threading.Timer is free (no such thread), waiting (started, not yet
\* elapsed) or fired (its wait is over and its function is about to run).
FreeTimer == [st |-> "free", deadline |-> 0]

\* threading.Timer.cancel(): stops a timer that is still waiting; one whose
\* wait is over runs its function all the same
CancelTimer(tm, h) ==
    IF h # NoTimer /\ tm[h].st = "waiting" THEN [tm EXCEPT ![h] = FreeTimer] ELSE tm

HasFree(tm) == \E i \in TimerIds : tm[i].st = "free"

NewTimerId(tm) == CHOOSE i \in TimerIds : tm[i].st = "free" /\ \A j \in TimerIds : j < i => tm[j].st # "free"

\* RandomPlayer._start_autoplay_timer
StartAutoplayTimer(s, duration) ==
    IF duration = None \/ duration <= 0 THEN s
    ELSE LET tm == CancelTimer(s.timers, s.autoplay_timer)
         IN IF ~HasFree(tm) THEN [s EXCEPT !.ok = FALSE]
            ELSE LET id == NewTimerId(tm)
                 IN [s EXCEPT !.autoplay_start_time = now,
                              !.autoplay_duration = duration,
                              !.autoplay_remaining = None,
                              !.autoplay_paused = FALSE,
                              !.autoplay_timer = id,
                              !.timers = [tm EXCEPT ![id] = [st |-> "waiting", deadline |-> now + duration]]]

\* StopCurrent as it would be if the pause bookkeeping were not cleared
StopKeepsPause(s) ==
    LET s1 == [s EXCEPT !.timers = CancelTimer(s.timers, s.autoplay_timer),
                        !.autoplay_timer = NoTimer,
                        !.autoplay_start_time = None,
                        !.autoplay_duration = None]
    IN IF s.current_track_title = NoTitle THEN s1
       ELSE [s1 EXCEPT !.youtube_playing = FALSE,
                       !.spotify_playing = FALSE,
                       !.current_track_title = NoTitle,
                       !.current_platform = NoPlatform]

\* RandomPlayer.stop_current
StopCurrent(s) ==
    LET s1 == [s EXCEPT !.timers = CancelTimer(s.timers, s.autoplay_timer),
                        !.autoplay_timer = NoTimer,
                        !.autoplay_start_time = None,
                        !.autoplay_duration = None,
                        !.autoplay_remaining = None,
                        !.autoplay_paused = FALSE]
    IN IF s.current_track_title = NoTitle THEN s1
       ELSE [s1 EXCEPT !.youtube_playing = FALSE,
                       !.spotify_playing = FALSE,
                       !.current_track_title = NoTitle,
                       !.current_platform = NoPlatform]

\* PausePlayback as it would be if the elapsed time were not subtracted
PauseKeepsDuration(s) ==
    IF s.autoplay_timer # NoTimer /\ ~s.autoplay_paused
    THEN [s EXCEPT !.timers = CancelTimer(s.timers, s.autoplay_timer),
                   !.autoplay_timer = NoTimer,
                   !.autoplay_remaining = s.autoplay_duration,
                   !.autoplay_paused = TRUE]
    ELSE IF s.autoplay_paused /\ s.autoplay_remaining # None
    THEN [StartAutoplayTimer(s, s.autoplay_remaining) EXCEPT !.autoplay_remaining = None,
                                                             !.autoplay_paused = FALSE]
    ELSE s

\* PausePlayback as it would be without the minimum of 0.1 s
PauseUnclamped(s) ==
    IF s.autoplay_timer # NoTimer /\ ~s.autoplay_paused
    THEN [s EXCEPT !.timers = CancelTimer(s.timers, s.autoplay_timer),
                   !.autoplay_timer = NoTimer,
                   !.autoplay_remaining = s.autoplay_duration - (now - s.autoplay_start_time),
                   !.autoplay_paused = TRUE]
    ELSE IF s.autoplay_paused /\ s.autoplay_remaining # None
    THEN [StartAutoplayTimer(s, s.autoplay_remaining) EXCEPT !.autoplay_remaining = None,
                                                             !.autoplay_paused = FALSE]
    ELSE s

\* the timer part of RandomPlayer.pause_playback: pause a live countdown,
\* or resume a paused one
PausePlayback(s) ==
    IF s.autoplay_timer # NoTimer /\ ~s.autoplay_paused
    THEN LET known == s.autoplay_start_time # None /\ s.autoplay_duration # None /\ s.autoplay_duration # 0
             remaining == s.autoplay_duration - (now - s.autoplay_start_time)
         IN [s EXCEPT !.timers = CancelTimer(s.timers, s.autoplay_timer),
                      !.autoplay_timer = NoTimer,
                      !.autoplay_remaining = IF known THEN Max(MinRemaining, remaining) ELSE None,
                      !.autoplay_paused = TRUE]
    ELSE IF s.autoplay_paused /\ s.autoplay_remaining # None
    THEN [StartAutoplayTimer(s, s.autoplay_remaining) EXCEPT !.autoplay_remaining = None,
                                                             !.autoplay_paused = FALSE]
    ELSE s

\* SpotifyTimerDur as it would be without the replacement of a result under 1 s
SpotifyTimerDurPlain(d, early) == IF d > early THEN d - early ELSE d

\* the early-trigger arithmetic of play_track and refresh_current_tab for a
\* spotify track: early is 4 s or 5 s, 1 s is 20 ticks, 0.5 s is 10 ticks
SpotifyTimerDur(d, early) ==
    LET timer_dur == IF d > early THEN d - early ELSE d
    IN IF timer_dur < 20 THEN Max(10, (9 * d) \div 10) ELSE timer_dur

\* the ledger increment at the end of play_track
CountPlay(counts, track) == [counts EXCEPT ![TrackKey(track)] = @ + 1]

\* RandomPlayer.play_track up to played_tracks.append(track); reused is the
\* result of _navigate_in_same_tab, which is only asked when a title is current
ShowTrack(s, track, reused) ==
    LET re == reused /\ s.current_track_title # NoTitle
        yt == StartAutoplayTimer([s EXCEPT !.current_track_title = track.title,
                                           !.current_platform = "youtube",
                                           !.youtube_playing = TRUE],
                                 IF track.duration # 0 THEN track.duration ELSE None)
        spReused == StartAutoplayTimer([s EXCEPT !.current_track_title = track.title,
                                                 !.current_platform = "spotify",
                                                 !.spotify_playing = TRUE],
                                       IF track.duration # 0 THEN SpotifyTimerDur(track.duration, 100) ELSE None)
        closed == [s EXCEPT !.youtube_playing = IF @ /\ s.current_track_title # NoTitle THEN FALSE ELSE @,
                            !.spotify_playing = IF @ /\ s.current_track_title # NoTitle THEN FALSE ELSE @,
                            !.current_track_title = track.title]
        spNew == IF track.url = "" THEN closed
                 ELSE StartAutoplayTimer([closed EXCEPT !.current_platform = "spotify",
                                                        !.spotify_playing = TRUE],
                                         IF track.duration # 0 THEN SpotifyTimerDur(track.duration, 80) ELSE None)
        shown == IF track.platform = "youtube" THEN yt
                 ELSE IF track.platform = "spotify" THEN (IF re THEN spReused ELSE spNew)
                 ELSE s
    IN [shown EXCEPT !.last_played = track]

\* RandomPlayer.play_track: show the track, then count it
PlayTrack(s, track, reused) ==
    [ShowTrack(s, track, reused) EXCEPT !.play_counts = CountPlay(@, track)]

\* ------------------------------------------------------ fairness queue
Count(counts, t) == counts[TrackKey(t)]

\* min(counts) if counts else 0
MinCount(tracks, counts) ==
    IF tracks = <<>> THEN 0
    ELSE CHOOSE m \in {Count(counts, tracks[i]) : i \in 1..Len(tracks)} :
            \A i \in 1..Len(tracks) : m <= Count(counts, tracks[i])

\* the tracks a refill picks from: the whole catalog or one platform's list
Slice(s, platform) ==
    IF platform = "all" THEN s.all_tracks
    ELSE IF platform = "youtube" THEN s.youtube_tracks
    ELSE s.spotify_tracks

\* Candidates as they would be if the play counts were ignored
CandidatesAny(tracks, counts) == tracks

\* the candidates of RandomPlayer._fill_queue, before the shuffle
Candidates(tracks, counts) ==
    LET least(t) == Count(counts, t) = MinCount(tracks, counts)
        picked == SelectSeq(tracks, least)
    IN IF picked = <<>> THEN tracks ELSE picked

\* FillQueue as it would be if the refill replaced the queue
FillQueueReplaces(s, platform, order) ==
    IF Slice(s, platform) = <<>> THEN s ELSE [s EXCEPT !.queue = order]

\* RandomPlayer._fill_queue; order is the shuffled candidate list
FillQueue(s, platform, order) ==
    IF Slice(s, platform) = <<>> THEN s ELSE [s EXCEPT !.queue = @ \o order]

\* the orders a refill of this slice can append
FillOrders(s, platform) == Shuffles(Candidates(Slice(s, platform), s.play_counts))

\* PlayNextFromQueue as it would be if it ended the session before it looked
\* at the queue
PlayNextStopsFirst(s, order, reused) ==
    LET filled == IF s.queue = <<>> THEN FillQueue(s, "all", order) ELSE s
    IN IF filled.queue # <<>>
       THEN PlayTrack([filled EXCEPT !.queue = Tail(@)], Head(filled.queue), reused)
       ELSE [filled EXCEPT !.current_track_title = NoTitle, !.current_platform = NoPlatform,
                           !.youtube_playing = FALSE, !.spotify_playing = FALSE]

\* PlayNextFromQueue as it would be if the last entry were taken
PlayNextTakesLast(s, order, reused) ==
    LET filled == IF s.queue = <<>> THEN FillQueue(s, "all", order) ELSE s
    IN IF filled.queue # <<>>
       THEN PlayTrack([filled EXCEPT !.queue = SubSeq(@, 1, Len(@) - 1)], filled.queue[Len(filled.queue)], reused)
       ELSE filled

\* PlayNextFromQueue as it would be if the head were played but left in the queue
PlayNextKeepsHead(s, order, reused) ==
    LET filled == IF s.queue = <<>> THEN FillQueue(s, "all", order) ELSE s
    IN IF filled.queue # <<>> THEN PlayTrack(filled, Head(filled.queue), reused) ELSE filled

\* RandomPlayer._play_next_from_queue: refill when empty, then pop the head
\* and play it
PlayNextFromQueue(s, order, reused) ==
    LET filled == IF s.queue = <<>> THEN FillQueue(s, "all", order) ELSE s
    IN IF filled.queue # <<>>
       THEN PlayTrack([filled EXCEPT !.queue = Tail(@)], Head(filled.queue), reused)
       ELSE filled

\* play_random_from_platform as it would be if it refilled the queue whether
\* or not it is empty
PlayRandomFromPlatformRefills(s, platform, scoped, order, reused) ==
    PlayNextFromQueue(FillQueue(s, platform, scoped), order, reused)

\* RandomPlayer.play_random_from_platform
PlayRandomFromPlatform(s, platform, scoped, order, reused) ==
    LET filled == IF s.queue = <<>> THEN FillQueue(s, platform, scoped) ELSE s
    IN PlayNextFromQueue(filled, order, reused)

\* ------------------------------------------------- catalog synchroniser
\* PreFilter as it would be if every fetched track were kept
PreFilterKeepsAll(fetched, catalog, counts) == fetched

\* the filter load_playlists puts on a fetched list: only the tracks whose
\* count is the minimum over the catalog as it is before the swap
PreFilter(fetched, catalog, counts) ==
    LET seeded(t) == Count(counts, t) = MinCount(catalog, counts)
    IN SelectSeq(fetched, seeded)

\* Reconcile as it would be if the removal were left out
ReconcileKeepsAll(q, old, new) ==
    LET fresh(t) == t.url \notin Urls(old)
        lacking(t) == t.url \notin Urls(q)
    IN q \o SelectSeq(SelectSeq(new, fresh), lacking)

\* Reconcile as it would be if the new tracks were put in front
ReconcileInFront(q, old, new) ==
    LET stays(t) == t.url \in Urls(new)
        kept == SelectSeq(q, stays)
        fresh(t) == t.url \notin Urls(old)
        lacking(t) == t.url \notin Urls(kept)
    IN SelectSeq(SelectSeq(new, fresh), lacking) \o kept

\* the locked part of load_playlists on the queue: drop the entries whose url
\* left the catalog, append the catalog's new urls that the queue lacks
Reconcile(q, old, new) ==
    LET stays(t) == t.url \in Urls(new)
        kept == SelectSeq(q, stays)
        fresh(t) == t.url \notin Urls(old)
        new_tracks == SelectSeq(new, fresh)
        lacking(t) == t.url \notin Urls(kept)
        new_unique == SelectSeq(new_tracks, lacking)
    IN kept \o new_unique

\* the locked part of load_playlists: install the filtered lists and
\* reconcile the queue
SwapCatalog(s, new_youtube_tracks, new_spotify_tracks) ==
    LET new_all == new_youtube_tracks \o new_spotify_tracks
    IN [s EXCEPT !.youtube_tracks = new_youtube_tracks,
                 !.spotify_tracks = new_spotify_tracks,
                 !.all_tracks = new_all,
                 !.queue = Reconcile(s.queue, s.all_tracks, new_all)]

\* RandomPlayer.load_playlists, given what the two fetches returned
LoadPlaylists(s, ytFetched, spFetched) ==
    SwapCatalog(s, PreFilter(ytFetched, s.all_tracks, s.play_counts),
                   PreFilter(spFetched, s.all_tracks, s.play_counts))

\* len(removed_tracks) and len(new_unique) of load_playlists
Removed(s, ytFetched, spFetched) ==
    LET new == LoadPlaylists(s, ytFetched, spFetched).all_tracks
    IN Cardinality({i \in 1..Len(s.queue) : s.queue[i].url \notin Urls(new)})

Added(s, ytFetched, spFetched) ==
    LET after == LoadPlaylists(s, ytFetched, spFetched)
    IN Len(after.queue) - (Len(s.queue) - Removed(s, ytFetched, spFetched))

\* ------------------------------------------------------ queue editing
\* Reorder as it would be if the target index were shifted for the removal
ReorderShifted(q, from_idx, to_idx) ==
    IF from_idx < 0 \/ from_idx >= Len(q) THEN q
    ELSE LET item == q[from_idx + 1]
             rest == PopAt(q, from_idx)
         IN IF to_idx = None THEN Append(rest, item)
            ELSE InsertAt(rest, Min(Max(0, IF from_idx < to_idx THEN to_idx - 1 ELSE to_idx), Len(rest)), item)

\* Menu._on_tree_button_release: the dragged row's index and the index of the
\* row it is dropped on (None when dropped on no row)
Reorder(q, from_idx, to_idx) ==
    IF from_idx < 0 \/ from_idx >= Len(q) THEN q
    ELSE LET item == q[from_idx + 1]
             rest == PopAt(q, from_idx)
         IN IF to_idx = None THEN Append(rest, item)
            ELSE InsertAt(rest, Min(Max(0, to_idx), Len(rest)), item)

\* main, a number typed at the prompt: move that queue entry to the front
MoveToFront(q, idx) ==
    IF 0 <= idx /\ idx < Len(q) THEN InsertAt(PopAt(q, idx), 0, q[idx + 1]) ELSE q

\* ------------------------------------------------------------ Init
\* RandomPlayer.__init__: everything empty, the ledger read from disk
Init ==
    /\ yt_provider \in PlaylistsOf("youtube")
    /\ sp_provider \in PlaylistsOf("spotify")
    /\ youtube_tracks = <<>>
    /\ spotify_tracks = <<>>
    /\ all_tracks = <<>>
    /\ queue = <<>>
    /\ play_counts \in [Keys -> 0..InitMaxCount]
    /\ last_played = NoTrack
    /\ current_platform = NoPlatform
    /\ youtube_playing = FALSE
    /\ spotify_playing = FALSE
    /\ current_track_title = NoTitle
    /\ autoplay_timer = NoTimer
    /\ autoplay_start_time = None
    /\ autoplay_duration = None
    /\ autoplay_remaining = None
    /\ autoplay_paused = FALSE
    /\ timers = [i \in TimerIds |-> FreeTimer]
    /\ now = 0
    /\ started = "boot"
    /\ last = [op |-> "init", a |-> None, b |-> None, q0 |-> <<>>]
    /\ run = NoRun
    /\ lock = NoContext
    /\ pc = [c \in Contexts |-> "idle"]
    /\ frame = [c \in Contexts |-> NoFrame]
    /\ actor = NoContext
    /\ probe = NoProbe

Running == started = "running"

\* the ledger stays within the bound of the model
Within(s) == s.ok /\ \A k \in Keys : s.play_counts[k] <= MaxPlays

\* ------------------------------------------------------------ actions
\* the playlists change at the providers
ProviderChange ==
    /\ \E y \in PlaylistsOf("youtube"), p \in PlaylistsOf("spotify") :
          /\ <<y, p>> # <<yt_provider, sp_provider>>
          /\ y = yt_provider \/ p = sp_provider
          /\ yt_provider' = y
          /\ sp_provider' = p
    /\ UNCHANGED <<catalogVars, queue, play_counts, last_played, sessionVars, timerVars, now, started, last, run, threadVars, probe>>

\* main: the first load_playlists (silent=False); a failed fetch returns []
LoadInitial ==
    /\ started = "boot"
    /\ \E y \in {yt_provider, <<>>}, p \in {sp_provider, <<>>} :
          /\ Install(LoadPlaylists(Self, y, p))
          /\ last' = Did("load", Removed(Self, y, p), Added(Self, y, p))
    /\ started' = IF all_tracks' = <<>> THEN "exited" ELSE "running"
    /\ UNCHANGED <<providerVars, now, run, threadVars, probe>>

\* _refresh_loop: one load_playlists(silent=True); a failed fetch returns the
\* list the player already has
SyncCycle ==
    /\ Running
    /\ \E y \in {yt_provider, youtube_tracks}, p \in {sp_provider, spotify_tracks} :
          /\ Install(LoadPlaylists(Self, y, p))
          /\ last' = Did("sync", Removed(Self, y, p), Added(Self, y, p))
    /\ UNCHANGED <<providerVars, now, started, run, threadVars, probe>>

\* the first load and a sync cycle when both fetches succeed
LoadInitialOk ==
    /\ started = "boot"
    /\ Install(LoadPlaylists(Self, yt_provider, sp_provider))
    /\ last' = Did("load", Removed(Self, yt_provider, sp_provider), Added(Self, yt_provider, sp_provider))
    /\ started' = IF all_tracks' = <<>> THEN "exited" ELSE "running"
    /\ UNCHANGED <<providerVars, now, run, threadVars, probe>>

SyncCycleOk ==
    /\ Running
    /\ Install(LoadPlaylists(Self, yt_provider, sp_provider))
    /\ last' = Did("sync", Removed(Self, yt_provider, sp_provider), Added(Self, yt_provider, sp_provider))
    /\ UNCHANGED <<providerVars, now, started, run, threadVars, probe>>

\* play_random (main, any other input) and Menu._next_track
Advance ==
    /\ Running
    /\ \E order \in FillOrders(Self, "all"), reused \in BOOLEAN :
          LET s == PlayNextFromQueue(Self, order, reused)
          IN /\ Within(s)
             /\ Install(s)
    /\ last' = Did("advance", None, None)
    /\ run' = IF run.active THEN [run EXCEPT !.n = Min(@ + 1, Len(all_tracks) + 2)] ELSE run
    /\ UNCHANGED <<providerVars, now, started, threadVars, probe>>

\* Menu._on_tree_double_click: pop the clicked row and play it
DoubleClickPlay ==
    /\ Running
    /\ \E idx \in 0..(Len(queue) - 1), reused \in BOOLEAN :
          LET s == PlayTrack([Self EXCEPT !.queue = PopAt(@, idx)], queue[idx + 1], reused)
          IN /\ Within(s)
             /\ Install(s)
             /\ last' = Did("play_row", idx, None)
    /\ UNCHANGED <<providerVars, now, started, run, threadVars, probe>>

\* main, a number: move a queue entry to the front
MoveToFrontCmd ==
    /\ Running
    /\ \E idx \in -1..Cardinality(Tracks) :
          /\ queue' = MoveToFront(queue, idx)
          /\ last' = Did("front", idx, None)
    /\ UNCHANGED <<providerVars, catalogVars, play_counts, last_played, sessionVars, timerVars, now, started, run, threadVars, probe>>

\* Menu._on_tree_button_release: drag a row onto another row, or onto none
DragReorder ==
    /\ Running
    /\ \E from_idx \in 0..(Cardinality(Tracks) - 1), to_idx \in {None} \cup 0..(Cardinality(Tracks) - 1) :
          /\ queue' = Reorder(queue, from_idx, to_idx)
          /\ last' = Did("drag", from_idx, to_idx)
    /\ UNCHANGED <<providerVars, catalogVars, play_counts, last_played, sessionVars, timerVars, now, started, run, threadVars, probe>>

\* main 'shuffle' and Menu._shuffle_queue
ShuffleQueue ==
    /\ Running
    /\ queue' \in Shuffles(queue)
    /\ last' = Did("shuffle", None, None)
    /\ UNCHANGED <<providerVars, catalogVars, play_counts, last_played, sessionVars, timerVars, now, started, run, threadVars, probe>>

\* main, 'x': stop_current
Stop ==
    /\ Running
    /\ Install(StopCurrent(Self))
    /\ last' = Did("stop", IF last.op = "stop" THEN 1 ELSE 0, None)
    /\ UNCHANGED <<providerVars, now, started, run, threadVars, probe>>

\* OnTrackEndClear as it would be without the call of stop_current
OnTrackEndKeepsSession(s) ==
    [s EXCEPT !.timers = CancelTimer(s.timers, s.autoplay_timer),
              !.autoplay_timer = NoTimer,
              !.autoplay_start_time = None,
              !.autoplay_duration = None,
              !.autoplay_remaining = None,
              !.autoplay_paused = FALSE]

\* RandomPlayer._on_track_end up to the call of _play_next_from_queue: clear
\* the timer and its bookkeeping, then stop_current
OnTrackEndClear(s) ==
    StopCurrent([s EXCEPT !.timers = CancelTimer(s.timers, s.autoplay_timer),
                          !.autoplay_timer = NoTimer,
                          !.autoplay_start_time = None,
                          !.autoplay_duration = None,
                          !.autoplay_remaining = None,
                          !.autoplay_paused = FALSE])

\* RandomPlayer._on_track_end, the function of a timer whose wait is over
OnTrackEndBody(s, order, reused) == PlayNextFromQueue(OnTrackEndClear(s), order, reused)

\* main 'x' aside, Menu._pause_playback: the Pause button
Pause ==
    /\ Running
    /\ LET s == PausePlayback(Self)
       IN /\ s.ok
          /\ Install(s)
    /\ last' = IF autoplay_timer # NoTimer /\ ~autoplay_paused
                THEN Did("pause", now - autoplay_start_time, autoplay_duration)
                ELSE IF autoplay_paused /\ autoplay_remaining # None
                THEN Did("resume", autoplay_remaining, None)
                ELSE Did("toggle", None, None)
    /\ UNCHANGED <<providerVars, now, started, run, threadVars, probe>>

\* time passes
Tick ==
    /\ Running
    /\ now < MaxTime
    /\ now' = now + 1
    /\ UNCHANGED <<providerVars, catalogVars, queue, play_counts, last_played, sessionVars, timerVars, started, last, run, threadVars, probe>>

\* threading.Timer.run: the wait of a started timer is over and it was not
\* cancelled, so its function is called next
TimerFire(id) ==
    /\ timers[id].st = "waiting"
    /\ now >= timers[id].deadline
    /\ timers' = [timers EXCEPT ![id].st = "fired"]
    /\ UNCHANGED <<providerVars, catalogVars, queue, play_counts, last_played, sessionVars, autoplay_timer, bookVars, now, started, last, run, threadVars, probe>>

\* the timer thread runs _on_track_end and ends
OnTrackEnd(id) ==
    /\ timers[id].st = "fired"
    /\ \E order \in FillOrders(Self, "all"), reused \in BOOLEAN :
          LET s == OnTrackEndBody(Self, order, reused)
          IN /\ Within(s)
             /\ Install([s EXCEPT !.timers = [@ EXCEPT ![id] = FreeTimer]])
    /\ last' = Did("track_end", id, None)
    /\ UNCHANGED <<providerVars, now, started, run, threadVars, probe>>

\* every track of the catalog has the same play count
Even(tracks, counts) == \A i, j \in 1..Len(tracks) : Count(counts, tracks[i]) = Count(counts, tracks[j])

\* from here on nothing but advance() is called: the counts are even now
BeginRun ==
    /\ Running
    /\ ~run.active
    /\ Even(all_tracks, play_counts)
    /\ run' = [active |-> TRUE, n |-> 0, base |-> MinCount(all_tracks, play_counts)]
    /\ UNCHANGED <<providerVars, catalogVars, queue, play_counts, last_played, sessionVars, timerVars, now, started, last, threadVars, probe>>

\* ------------------------------------------------- the threads, step by step
\* One step is what a context does between two points where another context
\* can run: up to the acquisition of _playlist_lock, the body of a with
\* block together with the release, or a mutation made outside any lock.
Goto(c, label) == pc' = [pc EXCEPT ![c] = label]

\* _play_next_from_queue, `if not self._queue`: called by play_random from
\* the prompt and by Menu._next_track
NextCheck(c) ==
    /\ Running
    /\ c \in {"main", "gui"}
    /\ pc[c] = "idle" \/ (c = "gui" /\ pc[c] = "raised")
    /\ Goto(c, IF queue = <<>> THEN "fill" ELSE "pop")
    /\ actor' = c
    /\ UNCHANGED <<providerVars, catalogVars, queue, play_counts, last_played, sessionVars, timerVars, now, started, last, run, lock, frame, probe>>

\* _fill_queue, `with self._playlist_lock`: block until the lock is free
FillAcquire(c) ==
    /\ pc[c] = "fill"
    /\ lock = NoContext
    /\ lock' = c
    /\ Goto(c, "filling")
    /\ actor' = c
    /\ UNCHANGED <<providerVars, catalogVars, queue, play_counts, last_played, sessionVars, timerVars, now, started, last, run, frame, probe>>

\* _fill_queue, the body of the with block and the release
FillBody(c) ==
    /\ pc[c] = "filling"
    /\ \E order \in FillOrders(Self, "all") : queue' = FillQueue(Self, "all", order).queue
    /\ lock' = NoContext
    /\ Goto(c, "pop")
    /\ actor' = c
    /\ UNCHANGED <<providerVars, catalogVars, play_counts, last_played, sessionVars, timerVars, now, started, last, run, frame, probe>>

\* _play_next_from_queue, `if self._queue:`, else "No tracks in queue!"
NextIf(c) ==
    /\ pc[c] = "pop"
    /\ Goto(c, IF queue # <<>> THEN "take" ELSE "idle")
    /\ actor' = c
    /\ UNCHANGED <<providerVars, catalogVars, queue, play_counts, last_played, sessionVars, timerVars, now, started, last, run, lock, frame, probe>>

\* _play_next_from_queue, `track = self._queue.pop(0)`; on an empty list it
\* raises IndexError, which ends the prompt loop and which Menu._next_track
\* and _on_track_end swallow
NextPop(c) ==
    /\ pc[c] = "take"
    /\ IF queue # <<>>
       THEN /\ frame' = [frame EXCEPT ![c].track = Head(queue)]
            /\ queue' = Tail(queue)
            /\ Goto(c, "play")
       ELSE /\ Goto(c, "raised")
            /\ UNCHANGED <<queue, frame>>
    /\ actor' = c
    /\ UNCHANGED <<providerVars, catalogVars, play_counts, last_played, sessionVars, timerVars, now, started, last, run, lock, probe>>

\* _play_next_from_queue, `self.play_track(track)`, up to the read of the
\* ledger, `self.play_counts.get(key, 0)`
NextPlay(c) ==
    /\ pc[c] = "play"
    /\ \E reused \in BOOLEAN :
          LET s == ShowTrack(Self, frame[c].track, reused)
          IN /\ s.ok
             /\ Install(s)
    /\ frame' = [frame EXCEPT ![c].count = Count(play_counts, frame[c].track)]
    /\ Goto(c, "count")
    /\ actor' = c
    /\ UNCHANGED <<providerVars, now, started, last, run, lock, probe>>

\* play_track, `self.play_counts[key] = ... + 1`: the write of the ledger
NextCount(c) ==
    /\ pc[c] = "count"
    /\ frame[c].count < MaxThreadPlays
    /\ play_counts' = [play_counts EXCEPT ![TrackKey(frame[c].track)] = frame[c].count + 1]
    /\ frame' = [frame EXCEPT ![c] = NoFrame]
    /\ Goto(c, "idle")
    /\ actor' = c
    /\ UNCHANGED <<providerVars, catalogVars, queue, last_played, sessionVars, timerVars, now, started, last, run, lock, probe>>

\* main, a number: `track = player._queue.pop(idx)`
FrontPop ==
    /\ Running
    /\ pc["main"] = "idle"
    /\ \E idx \in 0..(Len(queue) - 1) :
          /\ frame' = [frame EXCEPT !["main"].track = queue[idx + 1]]
          /\ queue' = PopAt(queue, idx)
    /\ Goto("main", "front")
    /\ actor' = "main"
    /\ UNCHANGED <<providerVars, catalogVars, play_counts, last_played, sessionVars, timerVars, now, started, last, run, lock, probe>>

\* main, a number: `player._queue.insert(0, track)`
FrontInsert ==
    /\ pc["main"] = "front"
    /\ queue' = InsertAt(queue, 0, frame["main"].track)
    /\ frame' = [frame EXCEPT !["main"] = NoFrame]
    /\ Goto("main", "idle")
    /\ actor' = "main"
    /\ UNCHANGED <<providerVars, catalogVars, play_counts, last_played, sessionVars, timerVars, now, started, last, run, lock, probe>>

\* main, 'shuffle': `random.shuffle(player._queue)`
MainShuffle ==
    /\ Running
    /\ pc["main"] = "idle"
    /\ queue' \in Shuffles(queue)
    /\ actor' = "main"
    /\ UNCHANGED <<providerVars, catalogVars, play_counts, last_played, sessionVars, timerVars, now, started, last, run, lock, pc, frame, probe>>

\* Menu._shuffle_queue and Menu._on_tree_button_release,
\* `with self.player._playlist_lock`: block until the lock is free
GuiAcquire ==
    /\ Running
    /\ pc["gui"] \in {"idle", "raised"}
    /\ lock = NoContext
    /\ lock' = "gui"
    /\ \E label \in {"shuffling", "dragging"} : Goto("gui", label)
    /\ actor' = "gui"
    /\ UNCHANGED <<providerVars, catalogVars, queue, play_counts, last_played, sessionVars, timerVars, now, started, last, run, frame, probe>>

\* Menu._shuffle_queue, the body of the with block and the release
GuiShuffleBody ==
    /\ pc["gui"] = "shuffling"
    /\ queue' \in Shuffles(queue)
    /\ lock' = NoContext
    /\ Goto("gui", "idle")
    /\ actor' = "gui"
    /\ UNCHANGED <<providerVars, catalogVars, play_counts, last_played, sessionVars, timerVars, now, started, last, run, frame, probe>>

\* Menu._on_tree_button_release, the body of the with block and the release
GuiDragBody ==
    /\ pc["gui"] = "dragging"
    /\ \E from_idx \in 0..(Cardinality(Tracks) - 1), to_idx \in {None} \cup 0..(Cardinality(Tracks) - 1) :
          queue' = Reorder(queue, from_idx, to_idx)
    /\ lock' = NoContext
    /\ Goto("gui", "idle")
    /\ actor' = "gui"
    /\ UNCHANGED <<providerVars, catalogVars, play_counts, last_played, sessionVars, timerVars, now, started, last, run, frame, probe>>

\* load_playlists(silent=True) up to the with block: min_count, the two
\* fetches and the filters on what they returned
SyncFetch ==
    /\ Running
    /\ pc["refresh"] = "idle"
    /\ frame' = [frame EXCEPT !["refresh"].youtube = PreFilter(yt_provider, all_tracks, play_counts),
                              !["refresh"].spotify = PreFilter(sp_provider, all_tracks, play_counts)]
    /\ Goto("refresh", "sync")
    /\ actor' = "refresh"
    /\ UNCHANGED <<providerVars, catalogVars, queue, play_counts, last_played, sessionVars, timerVars, now, started, last, run, lock, probe>>

\* load_playlists entering its swap without the lock: the with statement of
\* SyncAcquire left out, so the swap may start while another thread holds it
SyncWithoutLock ==
    /\ pc["refresh"] = "sync"
    /\ Goto("refresh", "syncing")
    /\ actor' = "refresh"
    /\ UNCHANGED <<providerVars, catalogVars, queue, play_counts, last_played, sessionVars, timerVars, now, started, last, run, lock, frame, probe>>

\* load_playlists, `with self._playlist_lock`: block until the lock is free
SyncAcquire ==
    /\ pc["refresh"] = "sync"
    /\ lock = NoContext
    /\ lock' = "refresh"
    /\ Goto("refresh", "syncing")
    /\ actor' = "refresh"
    /\ UNCHANGED <<providerVars, catalogVars, queue, play_counts, last_played, sessionVars, timerVars, now, started, last, run, frame, probe>>

\* load_playlists, the body of the with block and the release
SyncBody ==
    /\ pc["refresh"] = "syncing"
    /\ Install(SwapCatalog(Self, frame["refresh"].youtube, frame["refresh"].spotify))
    /\ frame' = [frame EXCEPT !["refresh"] = NoFrame]
    /\ lock' = NoContext
    /\ Goto("refresh", "idle")
    /\ actor' = "refresh"
    /\ UNCHANGED <<providerVars, now, started, last, run, probe>>

\* Track values as a playlist fetch can build them: any field may be empty
AnyTracks ==
    [title : {"", "A", "B"}, artist : {"", "a"}, platform : {"youtube", "spotify"},
     url : {"", "yt/A", "sp/C"}, uri : {"", "spotify:track:C"}, duration : {0}]

\* RandomPlayer._track_key, called once for each of two tracks
TrackKeyCall ==
    /\ probe = NoProbe
    /\ \E a, b \in AnyTracks :
          probe' = [fn |-> "track_key", args |-> <<a, b>>, out |-> <<TrackKey(a), TrackKey(b)>>]
    /\ UNCHANGED <<providerVars, catalogVars, queue, play_counts, last_played, sessionVars, timerVars, now, started, last, run, threadVars>>

\* the timer thread enters _on_track_end: the timer and its bookkeeping are
\* cleared and stop_current is called
FireBegin(id) ==
    /\ timers[id].st = "fired"
    /\ pc["timer"] \in {"idle", "raised"}
    /\ Install([OnTrackEndClear(Self) EXCEPT !.timers = [@ EXCEPT ![id] = FreeTimer]])
    /\ Goto("timer", "check")
    /\ actor' = "timer"
    /\ UNCHANGED <<providerVars, now, started, last, run, lock, frame, probe>>

\* _on_track_end, `self._play_next_from_queue()`: `if not self._queue`
FireCheck ==
    /\ pc["timer"] = "check"
    /\ Goto("timer", IF queue = <<>> THEN "fill" ELSE "pop")
    /\ actor' = "timer"
    /\ UNCHANGED <<providerVars, catalogVars, queue, play_counts, last_played, sessionVars, timerVars, now, started, last, run, lock, frame, probe>>

\* main, 'x', typed when the prompt is waiting for input
StopCmd == pc["main"] = "idle" /\ Stop

\* RandomPlayer._fill_queue called on the player as it is, for the whole
\* catalog or for one platform
FillCall ==
    /\ Running
    /\ \E platform \in {"all", "youtube", "spotify"} :
          \E order \in FillOrders(Self, platform) :
             /\ Len(queue) + Len(order) <= MaxQueue
             /\ queue' = FillQueue(Self, platform, order).queue
             /\ probe' = [fn |-> "fill_queue", args |-> <<platform>>, out |-> <<>>]
    /\ last' = Did("fill", None, None)
    /\ UNCHANGED <<providerVars, catalogVars, play_counts, last_played, sessionVars, timerVars, now, started, run, threadVars>>

\* the durations _start_autoplay_timer is called with: negative, zero, 0.1 s
ArmDurations == {-2, 0, 2}

\* RandomPlayer._start_autoplay_timer called on the player as it is
ArmCall ==
    /\ Running
    /\ \E duration \in ArmDurations :
          LET s == StartAutoplayTimer(Self, duration)
          IN /\ s.ok
             /\ Install(s)
             /\ last' = Did("arm", duration, None)
    /\ UNCHANGED <<providerVars, now, started, run, threadVars, probe>>

\* the duration play_track calls _start_autoplay_timer with; None when it
\* does not call it
TimerDur(s, track, reused) ==
    LET re == reused /\ s.current_track_title # NoTitle
    IN IF track.duration = 0 THEN None
       ELSE IF track.platform = "youtube" THEN track.duration
       ELSE IF track.platform # "spotify" THEN None
       ELSE IF re THEN SpotifyTimerDur(track.duration, 100)
       ELSE IF track.url = "" THEN None
       ELSE SpotifyTimerDur(track.duration, 80)

\* play_track up to the call of _start_autoplay_timer: the session fields
ShowSession(s, track, reused) ==
    [ShowTrack(s, track, reused) EXCEPT !.timers = s.timers,
                                        !.autoplay_timer = s.autoplay_timer,
                                        !.autoplay_start_time = s.autoplay_start_time,
                                        !.autoplay_duration = s.autoplay_duration,
                                        !.autoplay_remaining = s.autoplay_remaining,
                                        !.autoplay_paused = s.autoplay_paused,
                                        !.last_played = s.last_played,
                                        !.ok = TRUE]

\* _start_autoplay_timer, `if self._autoplay_timer: self._autoplay_timer.cancel()`:
\* the handle is read and the timer it names is cancelled
ArmCancel(s) == [s EXCEPT !.timers = CancelTimer(s.timers, s.autoplay_timer)]

\* _start_autoplay_timer from the bookkeeping on: a new Timer is made, bound
\* to the handle and started
ArmStart(s, duration) ==
    IF ~HasFree(s.timers) THEN [s EXCEPT !.ok = FALSE]
    ELSE LET id == NewTimerId(s.timers)
         IN [s EXCEPT !.autoplay_start_time = now,
                      !.autoplay_duration = duration,
                      !.autoplay_remaining = None,
                      !.autoplay_paused = FALSE,
                      !.autoplay_timer = id,
                      !.timers = [@ EXCEPT ![id] = [st |-> "waiting", deadline |-> now + duration]]]

\* _play_next_from_queue, `self.play_track(track)`, up to the cancellation of
\* the previous timer in _start_autoplay_timer; when play_track arms nothing,
\* up to the read of the ledger
PlayBegin(c) ==
    /\ pc[c] = "play"
    /\ \E reused \in BOOLEAN :
          LET d == TimerDur(Self, frame[c].track, reused)
              s == ShowSession(Self, frame[c].track, reused)
          IN IF d = None \/ d <= 0
             THEN /\ Install([s EXCEPT !.last_played = frame[c].track])
                  /\ frame' = [frame EXCEPT ![c].count = Count(play_counts, frame[c].track)]
                  /\ Goto(c, "count")
             ELSE /\ Install(ArmCancel(s))
                  /\ frame' = [frame EXCEPT ![c].duration = d]
                  /\ Goto(c, "arm")
    /\ actor' = c
    /\ UNCHANGED <<providerVars, now, started, last, run, lock, probe>>

\* play_track, the rest of _start_autoplay_timer, played_tracks.append and the
\* read of the ledger
PlayArm(c) ==
    /\ pc[c] = "arm"
    /\ LET s == ArmStart(Self, frame[c].duration)
       IN /\ s.ok
          /\ Install([s EXCEPT !.last_played = frame[c].track])
    /\ frame' = [frame EXCEPT ![c].count = Count(play_counts, frame[c].track)]
    /\ Goto(c, "count")
    /\ actor' = c
    /\ UNCHANGED <<providerVars, now, started, last, run, lock, probe>>

\* refresh_current_tab: the duration it calls _start_autoplay_timer with for
\* the track played last; None when it does not call it
RefreshTimerDur(track) ==
    IF track = NoTrack \/ track.duration = 0 THEN None
    ELSE IF track.platform = "spotify" THEN SpotifyTimerDur(track.duration, 80)
    ELSE track.duration

\* the spotify durations tried: 0.5 s, 1 s, 1.5 s, ... (10 ticks are 0.5 s)
Durations == {10 * k : k \in 1..MaxHalfSeconds}

\* the arming paths of a spotify track: a new tab, a reused tab, a refresh of
\* the current tab
ArmPaths == {"new", "reused", "refresh"}

\* the duration that one arming path computes for a spotify track of
\* duration d
AdjustCall ==
    /\ probe = NoProbe
    /\ \E d \in Durations, path \in ArmPaths :
          LET track == [TrackC EXCEPT !.duration = d]
              s == [Self EXCEPT !.current_track_title = IF path = "reused" THEN TrackA.title ELSE NoTitle]
              armed == IF path = "refresh" THEN RefreshTimerDur(track) ELSE TimerDur(s, track, path = "reused")
          IN probe' = [fn |-> "timer_dur", args |-> <<path, d>>, out |-> <<armed>>]
    /\ UNCHANGED <<providerVars, catalogVars, queue, play_counts, last_played, sessionVars, timerVars, now, started, last, run, threadVars>>

\* RandomPlayer.pause_playback as a whole: the timer part, then the space key
\* is sent to whatever has the focus and True is returned; pyautogui.press
\* can raise, and then nothing is sent and False is returned. The record
\* keeps the title that was current, the result and whether the key was sent.
PauseCall ==
    /\ Running
    /\ LET s == PausePlayback(Self)
       IN /\ s.ok
          /\ Install(s)
    /\ \E pressed \in BOOLEAN :
          probe' = [fn |-> "pause_playback", args |-> <<current_track_title>>, out |-> <<pressed, pressed>>]
    /\ last' = IF autoplay_timer # NoTimer /\ ~autoplay_paused
                THEN Did("pause", now - autoplay_start_time, autoplay_duration)
                ELSE IF autoplay_paused /\ autoplay_remaining # None
                THEN Did("resume", autoplay_remaining, None)
                ELSE Did("toggle", None, None)
    /\ UNCHANGED <<providerVars, now, started, run, threadVars>>

\* a track is added to the youtube playlist at the provider and stays there
AddTrack ==
    /\ Running
    /\ TrackB \notin Range(yt_provider)
    /\ yt_provider' = Append(yt_provider, TrackB)
    /\ UNCHANGED <<sp_provider, catalogVars, queue, play_counts, last_played, sessionVars, timerVars, now, started, last, run, threadVars, probe>>

\* RandomPlayer.update_menu_file with the Menu window running: the snapshots
\* it hands to schedule_update, none when the queue is empty
UpdateMenuFile(s) == IF s.queue = <<>> THEN <<>> ELSE <<s.queue>>

\* _refresh_loop: one load_playlists(silent=True) with the Menu window
\* running; the record keeps the snapshots the cycle sent to the window
SyncNotify ==
    /\ Running
    /\ \E y \in {yt_provider, youtube_tracks}, p \in {sp_provider, spotify_tracks} :
          LET s == LoadPlaylists(Self, y, p)
              removed_tracks == Removed(Self, y, p)
              new_unique == Added(Self, y, p)
          IN /\ Install(s)
             /\ last' = Did("sync", removed_tracks, new_unique)
             /\ probe' = [fn |-> "load_playlists", args |-> <<>>,
                          out |-> IF new_unique > 0 \/ removed_tracks > 0 THEN UpdateMenuFile(s) ELSE <<>>]
    /\ UNCHANGED <<providerVars, now, started, run, threadVars>>

\* load_playlists, inside the with block: `self.youtube_tracks = new_youtube_tracks`
SwapYoutube ==
    /\ pc["refresh"] = "syncing"
    /\ youtube_tracks' = frame["refresh"].youtube
    /\ Goto("refresh", "swap_spotify")
    /\ actor' = "refresh"
    /\ UNCHANGED <<providerVars, spotify_tracks, all_tracks, queue, play_counts, last_played, sessionVars, timerVars, now, started, last, run, lock, frame, probe>>

\* load_playlists, inside the with block: `self.spotify_tracks = new_spotify_tracks`
SwapSpotify ==
    /\ pc["refresh"] = "swap_spotify"
    /\ spotify_tracks' = frame["refresh"].spotify
    /\ Goto("refresh", "swap_all")
    /\ actor' = "refresh"
    /\ UNCHANGED <<providerVars, youtube_tracks, all_tracks, queue, play_counts, last_played, sessionVars, timerVars, now, started, last, run, lock, frame, probe>>

\* load_playlists, inside the with block: `self.all_tracks = self.youtube_tracks
\* + self.spotify_tracks`, the reconciliation of the queue and the release
SwapAll ==
    /\ pc["refresh"] = "swap_all"
    /\ all_tracks' = youtube_tracks \o spotify_tracks
    /\ queue' = Reconcile(queue, all_tracks, all_tracks')
    /\ frame' = [frame EXCEPT !["refresh"] = NoFrame]
    /\ lock' = NoContext
    /\ Goto("refresh", "idle")
    /\ actor' = "refresh"
    /\ UNCHANGED <<providerVars, youtube_tracks, spotify_tracks, play_counts, last_played, sessionVars, timerVars, now, started, last, run, probe>>

\* update_menu_file, `if not self._queue: return`, then
\* `with self._playlist_lock`: block until the lock is free
MenuAcquire(c) ==
    /\ Running
    /\ pc[c] = "idle"
    /\ queue # <<>>
    /\ lock = NoContext
    /\ lock' = c
    /\ Goto(c, "menu")
    /\ actor' = c
    /\ UNCHANGED <<providerVars, catalogVars, queue, play_counts, last_played, sessionVars, timerVars, now, started, last, run, frame, probe>>

\* a call of NextUpWindow.schedule_update by context c: the probe records
\* the caller and whether the caller holds _playlist_lock during the call
ScheduleUpdate(c) ==
    probe' = [fn |-> "schedule_update", args |-> <<c>>, out |-> <<lock = c>>]

\* the Tk thread is in its event loop, not inside a handler or a callback
TkLoop == pc["gui"] = "idle"

\* update_menu_file, inside the with block: `q_copy = list(self._queue)` and
\* `self._next_up_window.schedule_update(q_copy)`, whose `self.root.after(0,
\* _update)` is carried out by the Tk thread: a call from another thread
\* waits until the Tk thread takes it from its event queue
MenuSchedule(c) ==
    /\ pc[c] = "menu"
    /\ c = "gui" \/ TkLoop
    /\ ScheduleUpdate(c)
    /\ Goto(c, "scheduled")
    /\ actor' = c
    /\ UNCHANGED <<providerVars, catalogVars, queue, play_counts, last_played, sessionVars, timerVars, now, started, last, run, lock, frame>>

\* update_menu_file, the end of the with block: the release
MenuRelease(c) ==
    /\ pc[c] = "scheduled"
    /\ lock' = NoContext
    /\ Goto(c, "idle")
    /\ actor' = c
    /\ UNCHANGED <<providerVars, catalogVars, queue, play_counts, last_played, sessionVars, timerVars, now, started, last, run, frame, probe>>

\* NextUpWindow refresh_loop, `with self.player._playlist_lock`: block until
\* the lock is free
PollAcquire ==
    /\ Running
    /\ pc["gui"] = "idle"
    /\ lock = NoContext
    /\ lock' = "gui"
    /\ Goto("gui", "poll")
    /\ actor' = "gui"
    /\ UNCHANGED <<providerVars, catalogVars, queue, play_counts, last_played, sessionVars, timerVars, now, started, last, run, frame, probe>>

\* refresh_loop, `q = list(self.player._queue)` and the release
PollCopy ==
    /\ pc["gui"] = "poll"
    /\ lock' = NoContext
    /\ Goto("gui", "polled")
    /\ actor' = "gui"
    /\ UNCHANGED <<providerVars, catalogVars, queue, play_counts, last_played, sessionVars, timerVars, now, started, last, run, frame, probe>>

\* refresh_loop, `self.schedule_update(q)` after the with block
PollSchedule ==
    /\ pc["gui"] = "polled"
    /\ ScheduleUpdate("gui")
    /\ Goto("gui", "idle")
    /\ actor' = "gui"
    /\ UNCHANGED <<providerVars, catalogVars, queue, play_counts, last_played, sessionVars, timerVars, now, started, last, run, lock, frame>>

\* the Tk thread runs a handler that is about to take the lock:
\* Menu._shuffle_queue, Menu._on_tree_button_release or refresh_loop
GuiRequest ==
    /\ Running
    /\ pc["gui"] = "idle"
    /\ \E label \in {"shuffle", "drag", "watch"} : Goto("gui", label)
    /\ actor' = "gui"
    /\ UNCHANGED <<providerVars, catalogVars, queue, play_counts, last_played, sessionVars, timerVars, now, started, last, run, lock, frame, probe>>

\* the handler's `with self.player._playlist_lock`: block until the lock is
\* free
GuiEnter ==
    /\ pc["gui"] \in {"shuffle", "drag", "watch"}
    /\ lock = NoContext
    /\ lock' = "gui"
    /\ Goto("gui", CASE pc["gui"] = "shuffle" -> "shuffling"
                     [] pc["gui"] = "drag" -> "dragging"
                     [] OTHER -> "poll")
    /\ actor' = "gui"
    /\ UNCHANGED <<providerVars, catalogVars, queue, play_counts, last_played, sessionVars, timerVars, now, started, last, run, frame, probe>>

\* main, a number: `idx = int(choice) - 1` and `if 0 <= idx < len(player._queue)`,
\* else "Invalid queue index"; the index is kept in the frame's count
FrontCheck ==
    /\ Running
    /\ pc["main"] = "idle"
    /\ \E idx \in -1..Cardinality(Tracks) :
          IF 0 <= idx /\ idx < Len(queue)
          THEN /\ frame' = [frame EXCEPT !["main"].count = idx]
               /\ Goto("main", "number")
          ELSE UNCHANGED <<frame, pc>>
    /\ actor' = "main"
    /\ UNCHANGED <<providerVars, catalogVars, queue, play_counts, last_played, sessionVars, timerVars, now, started, last, run, lock, probe>>

\* main, a number: `track = player._queue.pop(idx)` on the queue as it is
\* now; an index past the end raises IndexError, which nothing in main catches
FrontTake ==
    /\ pc["main"] = "number"
    /\ IF frame["main"].count < Len(queue)
       THEN /\ frame' = [frame EXCEPT !["main"].track = queue[frame["main"].count + 1], !["main"].count = 0]
            /\ queue' = PopAt(queue, frame["main"].count)
            /\ Goto("main", "front")
       ELSE /\ Goto("main", "raised")
            /\ UNCHANGED <<queue, frame>>
    /\ actor' = "main"
    /\ UNCHANGED <<providerVars, catalogVars, play_counts, last_played, sessionVars, timerVars, now, started, last, run, lock, probe>>

\* Menu._on_tree_button_release, run by the Tk thread between two handlers
GuiDrag == pc["gui"] \in {"idle", "raised"} /\ DragReorder

\* a track is taken off the spotify playlist at the provider
DropTrack ==
    /\ sp_provider # <<>>
    /\ sp_provider' = Tail(sp_provider)
    /\ UNCHANGED <<yt_provider, catalogVars, queue, play_counts, last_played, sessionVars, timerVars, now, started, last, run, threadVars, probe>>

\* main, 'shuffle': `random.shuffle(player._queue)` takes a reference to the
\* list and starts `for i in reversed(range(1, len(x)))`
ShuffleLoad ==
    /\ Running
    /\ pc["main"] = "idle"
    /\ Len(queue) >= 2
    /\ frame' = [frame EXCEPT !["main"].i = Len(queue) - 1]
    /\ Goto("main", "swap")
    /\ actor' = "main"
    /\ UNCHANGED <<providerVars, catalogVars, queue, play_counts, last_played, sessionVars, timerVars, now, started, last, run, lock, probe>>

\* random.shuffle, `j = randbelow(i + 1)` and the first half of
\* `x[i], x[j] = x[j], x[i]`: both elements are read and x[i] is stored
SwapFirst ==
    /\ pc["main"] = "swap"
    /\ \E j \in 0..frame["main"].i :
          LET i == frame["main"].i
              own == frame["main"].detached
          IN /\ frame' = [frame EXCEPT !["main"].j = j,
                                       !["main"].track = IF own THEN NoTrack ELSE queue[i + 1]]
             /\ queue' = IF own THEN queue ELSE [queue EXCEPT ![i + 1] = queue[j + 1]]
    /\ Goto("main", "swapped")
    /\ actor' = "main"
    /\ UNCHANGED <<providerVars, catalogVars, play_counts, last_played, sessionVars, timerVars, now, started, last, run, lock, probe>>

\* random.shuffle, the second half of the exchange: x[j] is stored, and the
\* loop goes on to the next i or ends
SwapSecond ==
    /\ pc["main"] = "swapped"
    /\ LET i == frame["main"].i
           j == frame["main"].j
       IN /\ queue' = IF frame["main"].detached THEN queue ELSE [queue EXCEPT ![j + 1] = frame["main"].track]
          /\ IF i > 1
             THEN /\ frame' = [frame EXCEPT !["main"].i = i - 1, !["main"].j = 0, !["main"].track = NoTrack]
                  /\ Goto("main", "swap")
             ELSE /\ frame' = [frame EXCEPT !["main"] = NoFrame]
                  /\ Goto("main", "idle")
    /\ actor' = "main"
    /\ UNCHANGED <<providerVars, catalogVars, play_counts, last_played, sessionVars, timerVars, now, started, last, run, lock, probe>>

\* load_playlists, the body of the with block and the release, with the
\* identity of the list: `self._queue = [...]` (when removed_tracks is not
\* empty) binds the queue to a new list, and a reference taken before it
\* then points to the old one; `self._queue.extend` changes the list in place
SyncBodyRebinds ==
    /\ pc["refresh"] = "syncing"
    /\ LET s == SwapCatalog(Self, frame["refresh"].youtube, frame["refresh"].spotify)
           removed_tracks == \E k \in 1..Len(queue) : queue[k].url \notin Urls(s.all_tracks)
       IN /\ Len(s.queue) <= MaxQueue
          /\ Install(s)
          /\ frame' = [frame EXCEPT !["refresh"] = NoFrame,
                                    !["main"].detached = @ \/ (removed_tracks /\ pc["main"] \in {"swap", "swapped"})]
    /\ lock' = NoContext
    /\ Goto("refresh", "idle")
    /\ actor' = "refresh"
    /\ UNCHANGED <<providerVars, now, started, last, run, probe>>

\* RandomPlayer.play_random_from_platform called for either platform; the
\* probe records the platform, whether the queue was empty, and the track
\* that was started
AdvanceFromCall ==
    /\ Running
    /\ \E platform \in {"youtube", "spotify"} :
       \E scoped \in FillOrders(Self, platform), reused \in BOOLEAN :
          \E order \in FillOrders(IF queue = <<>> THEN FillQueue(Self, platform, scoped) ELSE Self, "all") :
             LET s == PlayRandomFromPlatform(Self, platform, scoped, order, reused)
             IN /\ Within(s)
                /\ Install(s)
                /\ probe' = [fn |-> "play_random_from_platform", args |-> <<platform, queue = <<>>>>,
                             out |-> <<s.last_played>>]
    /\ last' = Did("advance_from", None, None)
    /\ UNCHANGED <<providerVars, now, started, run, threadVars>>

\* _start_autoplay_timer, "reset bookkeeping for a new timer": the start
\* time, the duration, and the two fields of the pause
ArmBook(s, duration) ==
    [s EXCEPT !.autoplay_start_time = now,
              !.autoplay_duration = duration,
              !.autoplay_remaining = None,
              !.autoplay_paused = FALSE]

\* _start_autoplay_timer, `self._autoplay_timer = threading.Timer(...)` and
\* `.start()`
ArmTimer(s, duration) ==
    IF ~HasFree(s.timers) THEN [s EXCEPT !.ok = FALSE]
    ELSE LET id == NewTimerId(s.timers)
         IN [s EXCEPT !.autoplay_timer = id,
                      !.timers = [@ EXCEPT ![id] = [st |-> "waiting", deadline |-> now + duration]]]

\* play_track inside _start_autoplay_timer: the bookkeeping
PlayBook(c) ==
    /\ pc[c] = "arm"
    /\ Install(ArmBook(Self, frame[c].duration))
    /\ Goto(c, "timer")
    /\ actor' = c
    /\ UNCHANGED <<providerVars, now, started, last, run, lock, frame, probe>>

\* play_track inside _start_autoplay_timer: the new Timer; then
\* played_tracks.append and the read of the ledger
PlayTimer(c) ==
    /\ pc[c] = "timer"
    /\ LET s == ArmTimer(Self, frame[c].duration)
       IN /\ s.ok
          /\ Install([s EXCEPT !.last_played = frame[c].track])
    /\ frame' = [frame EXCEPT ![c].count = Count(play_counts, frame[c].track)]
    /\ Goto(c, "count")
    /\ actor' = c
    /\ UNCHANGED <<providerVars, now, started, last, run, lock, probe>>

\* Menu._pause_playback: the Tk thread calls pause_playback
GuiPause == pc["gui"] = "idle" /\ Pause

\* ------------------------------------------------------ specifications
\* In every specification but SpecThreads, SpecCalls and SpecFire a handler
\* runs to its end before the next one starts.

\* The catalog synchroniser and the queue it feeds: the playlists change, the
\* sync cycle runs, tracks are played and the queue is edited from the prompt.
Next ==
    \/ ProviderChange
    \/ LoadInitial
    \/ SyncCycle
    \/ Advance

Spec == Init /\ [][Next]_vars

\* Queue editing: no sync cycle runs after the first load.
NextEdit ==
    \/ LoadInitial
    \/ Advance
    \/ MoveToFrontCmd
    \/ DragReorder
    \/ ShuffleQueue

SpecEdit == Init /\ [][NextEdit]_vars

\* A fresh installation: play_counts.json does not exist yet.
InitFresh == Init /\ play_counts = [k \in Keys |-> 0]

\* Live refresh: the playlists at the providers never change and no fetch
\* fails; sync cycles and advance() calls interleave.
NextLive ==
    \/ LoadInitialOk
    \/ SyncCycleOk
    \/ Advance

SpecLive == InitFresh /\ [][NextLive]_vars

\* The autoplay timer and the session: both playlists are loaded once, time
\* passes, tracks are started and stopped, playback is paused and resumed,
\* and timers fire.
InitTimer == InitFresh /\ yt_provider = <<TrackA, TrackB>> /\ sp_provider = <<TrackC>>

NextTimer ==
    \/ LoadInitialOk
    \/ Advance
    \/ Stop
    \/ Pause
    \/ Tick
    \/ \E id \in TimerIds : TimerFire(id)
    \/ \E id \in TimerIds : OnTrackEnd(id)

SpecTimer == InitTimer /\ [][NextTimer]_vars

\* A run of advance() calls: sync cycles and advance() calls interleave until,
\* at a moment when the catalog's counts are even, the run begins; from then
\* on only advance() is called.
NextRound ==
    \/ LoadInitial
    \/ ~run.active /\ SyncCycle
    \/ BeginRun
    \/ Advance

SpecRound == Init /\ [][NextRound]_vars

\* The threads: after the first load the prompt loop, the Menu window and
\* the refresh thread run side by side, one step at a time.
NextThreads ==
    \/ LoadInitialOk
    \/ \E c \in {"main", "gui"} : NextCheck(c)
    \/ \E c \in {"main", "gui"} : FillAcquire(c)
    \/ \E c \in {"main", "gui"} : FillBody(c)
    \/ \E c \in {"main", "gui"} : NextIf(c)
    \/ \E c \in {"main", "gui"} : NextPop(c)
    \/ \E c \in {"main", "gui"} : NextPlay(c)
    \/ \E c \in {"main", "gui"} : NextCount(c)
    \/ FrontPop
    \/ FrontInsert
    \/ MainShuffle
    \/ GuiAcquire
    \/ GuiShuffleBody
    \/ GuiDragBody
    \/ SyncFetch
    \/ SyncAcquire
    \/ SyncBody

\* two playlists of one track each, so that the interleavings stay few
InitThreads == InitFresh /\ yt_provider = <<TrackA>> /\ sp_provider = <<TrackC>>

SpecThreads == InitThreads /\ [][NextThreads]_vars

\* Concurrent advance() calls: the prompt and the Menu window both call
\* _play_next_from_queue while the refresh thread runs sync cycles; nobody
\* edits the queue by hand.
NextCalls ==
    \/ LoadInitialOk
    \/ \E c \in {"main", "gui"} : NextCheck(c)
    \/ \E c \in {"main", "gui"} : FillAcquire(c)
    \/ \E c \in {"main", "gui"} : FillBody(c)
    \/ \E c \in {"main", "gui"} : NextIf(c)
    \/ \E c \in {"main", "gui"} : NextPop(c)
    \/ \E c \in {"main", "gui"} : NextPlay(c)
    \/ \E c \in {"main", "gui"} : NextCount(c)
    \/ SyncFetch
    \/ SyncAcquire
    \/ SyncBody

SpecCalls == InitThreads /\ [][NextCalls]_vars

\* The identity key: _track_key is called for any two tracks.
NextKey == TrackKeyCall

SpecKey == InitTimer /\ [][NextKey]_vars

\* The timer's fire against the prompt: time passes, the timer of the track
\* that is on fires and its thread runs _on_track_end step by step, while
\* play_random and stop_current are called from the prompt.
NextFire ==
    \/ LoadInitialOk
    \/ Tick
    \/ \E id \in TimerIds : TimerFire(id)
    \/ \E id \in TimerIds : FireBegin(id)
    \/ FireCheck
    \/ NextCheck("main")
    \/ \E c \in {"main", "timer"} : FillAcquire(c)
    \/ \E c \in {"main", "timer"} : FillBody(c)
    \/ \E c \in {"main", "timer"} : NextIf(c)
    \/ \E c \in {"main", "timer"} : NextPop(c)
    \/ \E c \in {"main", "timer"} : NextPlay(c)
    \/ \E c \in {"main", "timer"} : NextCount(c)
    \/ StopCmd

SpecFire == InitThreads /\ [][NextFire]_vars

\* The refill on its own: _fill_queue is called for any scope on any queue
\* that loading, playing and earlier refills have left.
NextFill ==
    \/ LoadInitial
    \/ SyncCycle
    \/ Advance
    \/ FillCall

SpecFill == InitTimer /\ [][NextFill]_vars

\* Arming on its own: _start_autoplay_timer is called with any duration while
\* no timer is armed, while one is armed and while one is paused.
NextArm ==
    \/ LoadInitialOk
    \/ Advance
    \/ Pause
    \/ Tick
    \/ ArmCall

SpecArm == InitTimer /\ [][NextArm]_vars

\* Concurrent track starts: the prompt and the Menu window both call
\* _play_next_from_queue, and play_track runs step by step through
\* _start_autoplay_timer.
NextRace ==
    \/ LoadInitialOk
    \/ \E c \in {"main", "gui"} : NextCheck(c)
    \/ \E c \in {"main", "gui"} : FillAcquire(c)
    \/ \E c \in {"main", "gui"} : FillBody(c)
    \/ \E c \in {"main", "gui"} : NextIf(c)
    \/ \E c \in {"main", "gui"} : NextPop(c)
    \/ \E c \in {"main", "gui"} : PlayBegin(c)
    \/ \E c \in {"main", "gui"} : PlayArm(c)
    \/ \E c \in {"main", "gui"} : NextCount(c)

SpecRace == InitThreads /\ [][NextRace]_vars

\* The early trigger on its own: the armed duration is computed for any
\* spotify duration on any arming path.
NextAdjust == AdjustCall

SpecAdjust == InitTimer /\ [][NextAdjust]_vars

\* The Pause button: tracks are started and stopped, time passes and
\* pause_playback is called in any of these states.
NextPause ==
    \/ LoadInitialOk
    \/ Advance
    \/ Stop
    \/ Tick
    \/ PauseCall

SpecPause == InitTimer /\ [][NextPause]_vars

\* A track is added while the player runs: after the first load of [A] and
\* [C], sync cycles and advance() calls interleave and at some moment B is
\* added to the youtube playlist.
NextAdd ==
    \/ LoadInitialOk
    \/ SyncCycleOk
    \/ Advance
    \/ AddTrack

SpecAdd == InitThreads /\ [][NextAdd]_vars

\* _refresh_loop runs a sync cycle every refresh_interval for as long as the
\* program runs; advance() is called again and again, by the timer or from
\* the prompt.
SpecAddFair == SpecAdd /\ WF_vars(SyncCycleOk) /\ WF_vars(Advance)

\* The notification of the Menu window: the playlists change at the
\* providers, tracks are played and every background cycle records what it
\* sent to the window.
NextNotify ==
    \/ ProviderChange
    \/ LoadInitial
    \/ SyncNotify
    \/ Advance

SpecNotify == InitFresh /\ [][NextNotify]_vars

\* The swap of the catalog, statement by statement: the refresh thread
\* assigns the three lists one after the other inside the with block while
\* the prompt advances and refills the queue.
NextSwap ==
    \/ LoadInitialOk
    \/ NextCheck("main")
    \/ FillAcquire("main")
    \/ FillBody("main")
    \/ NextIf("main")
    \/ NextPop("main")
    \/ NextPlay("main")
    \/ NextCount("main")
    \/ SyncFetch
    \/ SyncAcquire
    \/ SwapYoutube
    \/ SwapSpotify
    \/ SwapAll

SpecSwap == InitThreads /\ [][NextSwap]_vars

\* The display: the prompt loop advances and calls update_menu_file, the
\* Menu window polls the queue once a second.
NextMenu ==
    \/ LoadInitialOk
    \/ NextCheck("main")
    \/ FillAcquire("main")
    \/ FillBody("main")
    \/ NextIf("main")
    \/ NextPop("main")
    \/ NextPlay("main")
    \/ NextCount("main")
    \/ MenuAcquire("main")
    \/ MenuSchedule("main")
    \/ MenuRelease("main")
    \/ PollAcquire
    \/ PollCopy
    \/ PollSchedule

SpecMenu == InitThreads /\ [][NextMenu]_vars

\* The lock: the prompt advances, refills and updates the display, the
\* refresh thread runs sync cycles and the Tk thread shuffles, reorders and
\* polls; every with block is a request, an acquisition and a body that ends
\* with the release.
NextLock ==
    \/ LoadInitialOk
    \/ NextCheck("main")
    \/ FillAcquire("main")
    \/ FillBody("main")
    \/ NextIf("main")
    \/ NextPop("main")
    \/ NextPlay("main")
    \/ NextCount("main")
    \/ SyncFetch
    \/ SyncAcquire
    \/ SyncBody
    \/ MenuAcquire("main")
    \/ MenuSchedule("main")
    \/ MenuRelease("main")
    \/ GuiRequest
    \/ GuiEnter
    \/ GuiShuffleBody
    \/ GuiDragBody
    \/ PollCopy
    \/ PollSchedule

SpecLock == InitThreads /\ [][NextLock]_vars

\* threading.Lock hands the lock to a thread that keeps asking for it (strong
\* fairness of the acquisitions); a thread inside a with block runs to the
\* end of the block (weak fairness of the bodies)
SpecLockFair ==
    /\ SpecLock
    /\ SF_vars(FillAcquire("main")) /\ SF_vars(SyncAcquire) /\ SF_vars(GuiEnter)
    /\ WF_vars(FillBody("main")) /\ WF_vars(SyncBody)
    /\ WF_vars(GuiShuffleBody) /\ WF_vars(GuiDragBody) /\ WF_vars(PollCopy) /\ WF_vars(PollSchedule)
    /\ WF_vars(MenuSchedule("main")) /\ WF_vars(MenuRelease("main"))

\* Reordering: numbers are typed at the prompt while rows are dragged and
\* Next is clicked in the Menu window.
NextFront ==
    \/ LoadInitialOk
    \/ FrontCheck
    \/ FrontTake
    \/ FrontInsert
    \/ GuiDrag
    \/ NextCheck("gui")
    \/ FillAcquire("gui")
    \/ FillBody("gui")
    \/ NextIf("gui")
    \/ NextPop("gui")
    \/ NextPlay("gui")
    \/ NextCount("gui")

SpecFront == InitThreads /\ [][NextFront]_vars

\* The shuffle typed at the prompt against the refresh thread: a playlist
\* gains a track and another loses one, sync cycles run, and random.shuffle
\* exchanges the queue's elements one store at a time.
NextShuffle ==
    \/ LoadInitialOk
    \/ AddTrack
    \/ DropTrack
    \/ SyncFetch
    \/ SyncAcquire
    \/ SyncBodyRebinds
    \/ ShuffleLoad
    \/ SwapFirst
    \/ SwapSecond

SpecShuffle == InitThreads /\ [][NextShuffle]_vars

\* The scoped advance: play_random_from_platform is called for either
\* platform between plain advances and sync cycles.
NextScoped ==
    \/ LoadInitialOk
    \/ SyncCycleOk
    \/ Advance
    \/ AdvanceFromCall

SpecScoped == InitTimer /\ [][NextScoped]_vars

\* Pause against a track start: the prompt advances, statement by statement
\* through _start_autoplay_timer, while Pause is clicked in the Menu window.
NextToggle ==
    \/ LoadInitialOk
    \/ NextCheck("main")
    \/ FillAcquire("main")
    \/ FillBody("main")
    \/ NextIf("main")
    \/ NextPop("main")
    \/ PlayBegin("main")
    \/ PlayBook("main")
    \/ PlayTimer("main")
    \/ NextCount("main")
    \/ GuiPause

SpecToggle == InitThreads /\ [][NextToggle]_vars

\* ------------------------------------------------------------ claims
\* the position of an entry in a list that holds it once
Pos(s, x) == CHOOSE i \in 1..Len(s) : s[i] = x

\* a sync cycle (the first load included) has just run
Synced == last.op \in {"sync", "load"}

\* a step that is a sync cycle: it records itself and leaves the providers alone
SyncStep == last'.op \in {"sync", "load"} /\ UNCHANGED providerVars

\* C2: after the reconciliation of a sync cycle the queue holds no entry
\* whose url is absent from the new union catalog, and holds every track of
\* the new catalog whose url is neither in the old catalog nor in the old queue.
C2_Reconciliation ==
    [][SyncStep =>
          /\ \A i \in 1..Len(queue') : queue'[i].url \in Urls(all_tracks')
          /\ \A j \in 1..Len(all_tracks') :
                (all_tracks'[j].url \notin Urls(all_tracks) /\ all_tracks'[j].url \notin Urls(queue))
                   => all_tracks'[j] \in Range(queue')]_vars

\* a sync cycle that removed an entry from the queue and added another
C2_Witness == last.op = "sync" /\ last.a > 0 /\ last.b > 0 /\ queue # <<>>

\* C9: a sync cycle never reorders the queue: the entries that survive keep
\* their relative order, the entries removed are exactly those whose url is
\* not in the catalog any more, and the entries added come after all survivors.
C9_SyncKeepsOrder ==
    Synced =>
       /\ \A t \in Range(last.q0) : t \in Range(queue) <=> t.url \in Urls(all_tracks)
       /\ \A i, j \in 1..Len(queue) :
             (i < j /\ queue[i] \in Range(last.q0) /\ queue[j] \in Range(last.q0))
                => Pos(last.q0, queue[i]) < Pos(last.q0, queue[j])
       /\ \A i, j \in 1..Len(queue) :
             (queue[i] \notin Range(last.q0) /\ queue[j] \in Range(last.q0)) => j < i
       /\ Len(queue) = Len(last.q0) - last.a + last.b

\* the queue was [A, B, C], the sync removed B, and the queue is [A, C]
C9_Witness ==
    /\ last.op = "sync"
    /\ last.q0 = <<TrackA, TrackB, TrackC>>
    /\ TrackB.url \notin Urls(all_tracks)
    /\ queue = <<TrackA, TrackC>>

\* s without its element at the 0-based index k
Without(s, k) == [i \in 1..(Len(s) - 1) |-> IF i <= k THEN s[i] ELSE s[i + 1]]

\* q is q0 with the element at from_idx removed and then inserted at to_idx,
\* an index into the list after the removal
RemovedThenInserted(q0, q, from_idx, to_idx) ==
    /\ Len(q) = Len(q0)
    /\ q[to_idx + 1] = q0[from_idx + 1]
    /\ Without(q, to_idx) = Without(q0, from_idx)

Level(tracks, counts) ==
    \A i, j \in 1..Len(tracks) : Count(counts, tracks[i]) - Count(counts, tracks[j]) <= 1

\* C1: starting with every catalog track at the same count, with nothing but
\* advance() calls, the play counts of any two catalog tracks differ by at
\* most 1 after every call.
C1_FairRun == run.active => Level(all_tracks, play_counts)

\* a run over two tracks or more that went through a refill
C1_Witness ==
    /\ run.active
    /\ Len(all_tracks) >= 2
    /\ run.n = Len(all_tracks) + 1
    /\ ~Even(all_tracks, play_counts)

\* how many tracks of the catalog have this play count
HowMany(c) == Cardinality({i \in 1..Len(all_tracks) : Count(play_counts, all_tracks[i]) = c})

\* C7: with N catalog tracks all at count 0 and only advance() calls, the
\* first N calls start each track once (after n <= N calls n tracks are at 1
\* and the others at 0), the (N+1)-th call refills the queue and starts one
\* track a second time, and no track is at 2 while another is still at 0.
C7_Round ==
    (run.active /\ run.base = 0) =>
       LET N == Len(all_tracks)
       IN /\ run.n <= N => (HowMany(1) = run.n /\ HowMany(0) = N - run.n)
          /\ (run.n = N + 1 /\ N > 0) => (HowMany(2) = 1 /\ HowMany(1) = N - 1 /\ Len(queue) = N - 1)
          /\ HowMany(0) > 0 => \A k \in Keys : (\E i \in 1..N : TrackKey(all_tracks[i]) = k) => play_counts[k] <= 1

\* three tracks at count 0, and the fourth advance() has run
C7_Witness ==
    /\ run.active
    /\ run.base = 0
    /\ Len(all_tracks) = 3
    /\ run.n = 4

\* C10: with playlists that never change, under every interleaving of
\* advance() calls and sync cycles the play counts of any two tracks of the
\* playlists differ by at most 1.
C10_FairUnderRefresh == Running => Level(yt_provider \o sp_provider, play_counts)

\* the program's state that a caller can observe, the clock aside
observed == <<catalogVars, queue, play_counts, last_played, sessionVars, timerVars>>

\* no session, no timer and no timer bookkeeping
IdleCleared ==
    /\ current_track_title = NoTitle
    /\ current_platform = NoPlatform
    /\ ~youtube_playing
    /\ ~spotify_playing
    /\ autoplay_timer = NoTimer
    /\ \A id \in TimerIds : timers[id].st # "waiting"
    /\ autoplay_start_time = None
    /\ autoplay_duration = None
    /\ autoplay_remaining = None
    /\ ~autoplay_paused

\* C6: stop_current leaves the session idle, no timer armed and the timer
\* bookkeeping cleared, and a stop_current that directly follows another one
\* changes nothing.
C6_IdempotentStop ==
    [][Stop => (IdleCleared' /\ (last.op = "stop" => UNCHANGED observed))]_vars

\* a second stop in a row, after a first one that ended a session
C6_Witness == last.op = "stop" /\ last.a = 1 /\ IdleCleared /\ last_played # NoTrack

\* C5 as claimed: a pause t ticks into a countdown of D ticks, 0 < t < D, keeps
\* exactly D - t, and the resume arms a countdown of exactly that length.
C5_ExactRemaining ==
    [][/\ (Pause /\ last'.op = "pause" /\ 0 < last'.a /\ last'.a < last'.b)
            => autoplay_remaining' = last'.b - last'.a
       /\ (Pause /\ last'.op = "resume")
            => (autoplay_duration' = autoplay_remaining /\ autoplay_timer' # NoTimer)]_vars

\* C5 as amended: the pause keeps max(0.1 s, D - t), which is D - t unless
\* less than 0.1 s is left; the resume arms a countdown of exactly the kept
\* length that starts at the moment of the resume, so paused time is not counted.
C5_ClampedRemaining ==
    [][/\ (Pause /\ last'.op = "pause" /\ 0 < last'.a /\ last'.a < last'.b)
            => /\ autoplay_remaining' = Max(MinRemaining, last'.b - last'.a)
               /\ (last'.b - last'.a >= MinRemaining => autoplay_remaining' = autoplay_duration - (now - autoplay_start_time))
               /\ autoplay_paused'
               /\ autoplay_timer' = NoTimer
               /\ \A id \in TimerIds : timers'[id].st # "waiting"
       /\ (Pause /\ last'.op = "resume")
            => /\ autoplay_duration' = autoplay_remaining
               /\ autoplay_start_time' = now
               /\ autoplay_timer' # NoTimer
               /\ timers'[autoplay_timer'] = [st |-> "waiting", deadline |-> now + autoplay_remaining]
               /\ ~autoplay_paused']_vars

\* a countdown of 4 ticks, paused after 1 tick and resumed later with
\* exactly 3 ticks to go
C5_Witness ==
    /\ last.op = "resume"
    /\ last.a = TrackA.duration - 1
    /\ autoplay_duration = TrackA.duration - 1
    /\ autoplay_timer # NoTimer
    /\ timers[autoplay_timer].deadline = autoplay_start_time + TrackA.duration - 1
    /\ autoplay_start_time > 1

\* C3: the function of a timer that is not the current timer any more,
\* because a track was started or stop was called after its wait was over,
\* changes nothing when it runs.
C3_StaleFireNoOp ==
    [][\A id \in TimerIds :
          (OnTrackEnd(id) /\ autoplay_timer # id /\ last.op \in {"advance", "stop"})
             => UNCHANGED <<sessionVars, autoplay_timer, bookVars, queue, play_counts, last_played>>]_vars

\* a step changes the queue, the catalog or the ledger
Mutation == queue' # queue \/ catalogVars' # catalogVars \/ play_counts' # play_counts

\* the context is in the middle of a step that reads, computes and writes the
\* queue, the catalog or the ledger
Inside(c) == pc[c] \in {"filling", "shuffling", "dragging", "syncing", "front"}

\* C4: once the threads run, every step that changes the queue, the catalog
\* or the ledger is taken by a context that holds the lock, and no two
\* contexts are in the middle of such a step at the same time.
C4_MutationsUnderLock ==
    /\ [][(Running /\ Mutation) => lock = actor']_vars
    /\ [](Cardinality({c \in Contexts : Inside(c)}) <= 1)

\* C11: whatever the interleaving of advance() calls from the prompt and
\* the Menu window with sync cycles, the queue never holds two entries with
\* the same url.
C11_NoDuplicateUrls ==
    \A i, j \in 1..Len(queue) : queue[i].url = queue[j].url => i = j

\* C12: the key of a track is its uri when it has one, else its url when it
\* has one, else `platform:title - artist`; it is never empty, equal tracks
\* have equal keys, and two tracks with the same uri have the same key
\* whatever their titles, artists and urls.
C12_IdentityKey ==
    probe.fn = "track_key" =>
        LET a == probe.args[1]
            b == probe.args[2]
            ka == probe.out[1]
            kb == probe.out[2]
        IN /\ a.uri # "" => ka = a.uri
           /\ (a.uri = "" /\ a.url # "") => ka = a.url
           /\ (a.uri = "" /\ a.url = "") => ka = a.platform \o ":" \o a.title \o " - " \o a.artist
           /\ ka # "" /\ kb # ""
           /\ a = b => ka = kb
           /\ (a.uri # "" /\ a.uri = b.uri) => ka = kb

\* two tracks with the same uri and different titles, artists and urls
C12_Witness ==
    /\ probe.fn = "track_key"
    /\ probe.args[1].uri # ""
    /\ probe.args[1].uri = probe.args[2].uri
    /\ probe.args[1].title # probe.args[2].title
    /\ probe.args[1].artist # probe.args[2].artist
    /\ probe.args[1].url # probe.args[2].url
    /\ probe.args[1].url # ""
    /\ probe.args[2].url # ""
    /\ probe.out[1] = probe.out[2]

\* a step that is an advance() call: it records itself and leaves the
\* providers alone
AdvanceStep == last'.op = "advance" /\ UNCHANGED providerVars

\* C13: advance() with an empty queue and an empty catalog changes neither
\* the queue, the catalog, the ledger, the session nor the timer.
C13_EmptyCatalog ==
    [][(AdvanceStep /\ queue = <<>> /\ all_tracks = <<>>)
          => UNCHANGED <<catalogVars, queue, play_counts, last_played, sessionVars, timerVars>>]_vars

\* advance() was called while a track was on and the catalog had become empty
C13_Witness ==
    /\ last.op = "advance"
    /\ all_tracks = <<>>
    /\ queue = <<>>
    /\ current_track_title # NoTitle
    /\ yt_provider = <<>>
    /\ sp_provider = <<>>

\* the step started this track: it is the current one and its count went up
StartedNow(t) ==
    /\ last_played' = t
    /\ current_track_title' = t.title
    /\ play_counts' = CountPlay(play_counts, t)

\* C14: advance() with a non-empty queue starts the head and removes only
\* the head; with an empty queue and a non-empty catalog it refills and
\* starts a track of the catalog, leaving the rest of the refill queued; it
\* starts nothing only when queue and catalog are both empty.
C14_PopNext ==
    [][AdvanceStep =>
          /\ queue # <<>> => (StartedNow(Head(queue)) /\ queue' = Tail(queue))
          /\ (queue = <<>> /\ all_tracks # <<>>) =>
                \E t \in Range(all_tracks) :
                   /\ StartedNow(t)
                   /\ t \notin Range(queue')
                   /\ Range(queue') \cup {t} = Range(Candidates(all_tracks, play_counts))
          /\ play_counts' = play_counts => (queue = <<>> /\ all_tracks = <<>>)]_vars

\* advance() has started a track and left at least two entries queued
C14_Witness ==
    /\ last.op = "advance"
    /\ Len(queue) >= 2
    /\ last_played # NoTrack
    /\ last_played \notin Range(queue)
    /\ current_track_title = last_played.title
    /\ play_counts[TrackKey(last_played)] >= 1

\* C15: the write that ends a track start leaves the ledger with the count
\* of the started track up by exactly 1 over what it was just before the
\* write, and every other count as it was, whichever contexts start tracks
\* side by side.
C15_LedgerExact ==
    [][\A c \in {"main", "gui"} :
          (pc[c] = "count" /\ pc'[c] = "idle") => play_counts' = CountPlay(play_counts, frame[c].track)]_vars

\* C18: when several contexts call advance() side by side, no call pops
\* from a queue that another context emptied after the call had found it
\* non-empty.
C18_NoFailedPop == \A c \in Contexts : pc[c] # "raised"

\* C16: a timer whose wait ended before it was cancelled runs its
\* function to the end, and the function advances exactly once: the timer
\* thread only ends after it has started and counted one track, whatever
\* the prompt does meanwhile; a timer cancelled while it waits never runs.
C16_FireAdvancesOnce ==
    [][/\ (pc["timer"] \notin {"idle", "raised"} /\ pc'["timer"] \in {"idle", "raised"})
             => pc["timer"] = "count"
       /\ \A id \in TimerIds :
             (timers[id].st = "waiting" /\ timers'[id].st # "waiting" /\ now < timers[id].deadline)
                => timers'[id].st = "free"]_vars

\* C17: when advance() has just started a track whose duration is unknown,
\* no timer is armed: the player holds no timer and no timer is waiting.
C17_UnknownDurationUnarmed ==
    (last.op = "advance" /\ last_played # NoTrack /\ last_played.duration = 0)
        => (autoplay_timer = NoTimer /\ \A id \in TimerIds : timers[id].st # "waiting")

\* a step that is a call of _fill_queue
FillStep == last'.op = "fill"

\* the tracks of a list whose count is the least in that list
LeastPlayed(tracks, counts) ==
    {t \in Range(tracks) : \A u \in Range(tracks) : counts[TrackKey(t)] <= counts[TrackKey(u)]}

\* C19: a refill leaves the old queue in place as a prefix and appends each
\* track of the chosen slice whose count is the least in that slice exactly
\* once, in some order; when the slice is empty the queue is unchanged.
C19_RefillAppends ==
    [][FillStep =>
          LET tracks == Slice(Self, probe'.args[1])
              added == SubSeq(queue', Len(queue) + 1, Len(queue'))
          IN IF tracks = <<>> THEN queue' = queue
             ELSE /\ Len(queue') >= Len(queue)
                  /\ SubSeq(queue', 1, Len(queue)) = queue
                  /\ Range(added) = LeastPlayed(tracks, play_counts)
                  /\ Len(added) = Cardinality(LeastPlayed(tracks, play_counts))]_vars

\* a refill for one platform has appended to a queue that was not empty,
\* and the platform had a track that was not among the least played
C19_Witness ==
    /\ last.op = "fill"
    /\ probe.args[1] = "youtube"
    /\ queue = <<TrackB, TrackC, TrackB>>
    /\ play_counts[TrackKey(TrackA)] = 1
    /\ play_counts[TrackKey(TrackB)] = 0

\* a step that is a call of _start_autoplay_timer
ArmStep == last'.op = "arm" /\ now' = now

\* C20: after _start_autoplay_timer with a duration that is not positive no
\* countdown is live, whatever the state before; with a positive duration
\* the only live countdown is the new one, started now with that duration.
C20_ArmCancelsFirst ==
    [][ArmStep =>
          IF last'.a <= 0
          THEN autoplay_timer' = NoTimer /\ \A id \in TimerIds : timers'[id].st # "waiting"
          ELSE /\ autoplay_timer' # NoTimer
               /\ autoplay_start_time' = now
               /\ autoplay_duration' = last'.a
               /\ \A id \in TimerIds :
                     timers'[id].st = "waiting" <=> id = autoplay_timer']_vars

\* the countdowns that are neither cancelled nor over
Live == {id \in TimerIds : timers[id].st = "waiting"}

\* C21: in every state at most one countdown is live, and a live countdown
\* is the one the player holds the handle of, also when track starts from
\* the prompt and from the Menu window run side by side.
C21_OneLiveCountdown ==
    /\ Cardinality(Live) <= 1
    /\ \A id \in Live : id = autoplay_timer

Armed == autoplay_timer # NoTimer /\ ~autoplay_paused
Paused == autoplay_timer = NoTimer /\ autoplay_paused /\ autoplay_remaining # None
Unarmed == autoplay_timer = NoTimer /\ ~autoplay_paused

\* C23: a pause toggle in Armed keeps max(0.1 s, duration - elapsed),
\* cancels the countdown and leaves the timer Paused; in Paused it arms a
\* countdown of exactly the kept time, starting now; in Unarmed it changes
\* nothing of the timer; and it changes the timer from no other state.
C23_PauseFromArmedOnly ==
    [][Pause =>
          /\ Armed => /\ autoplay_remaining' = Max(MinRemaining, autoplay_duration - (now - autoplay_start_time))
                      /\ Paused'
                      /\ timers' = CancelTimer(timers, autoplay_timer)
                      /\ \A id \in TimerIds : timers'[id].st # "waiting"
          /\ Paused => /\ Armed'
                       /\ autoplay_duration' = autoplay_remaining
                       /\ autoplay_start_time' = now
                       /\ autoplay_remaining' = None
                       /\ timers'[autoplay_timer'] = [st |-> "waiting", deadline |-> now + autoplay_remaining]
          /\ Unarmed => (Unarmed' /\ UNCHANGED timerVars)
          /\ timerVars' # timerVars => (Armed \/ Paused)]_vars

\* the pause toggle was pressed while a track of unknown duration was on and
\* no timer was armed
C23_Witness ==
    /\ last.op = "toggle"
    /\ Unarmed
    /\ current_track_title = TrackB.title
    /\ \A id \in TimerIds : timers[id].st = "free"

\* C24: pause_playback called when no track is current returns False, does
\* not send the key that toggles playback, and changes neither the timer
\* nor the session.
C24_NoSessionNoOp ==
    [][(PauseCall /\ current_track_title = NoTitle)
          => /\ probe'.out = <<FALSE, FALSE>>
             /\ UNCHANGED <<timerVars, sessionVars>>]_vars

\* the step is a background sync cycle whose youtube fetch raised, so that
\* _fetch_youtube_silent returned the list the player has; and the same for
\* spotify
YoutubeFetchFailed ==
    /\ Running
    /\ last'.op = "sync"
    /\ \E p \in {sp_provider, spotify_tracks} : Install(LoadPlaylists(Self, youtube_tracks, p))

SpotifyFetchFailed ==
    /\ Running
    /\ last'.op = "sync"
    /\ \E y \in {yt_provider, youtube_tracks} : Install(LoadPlaylists(Self, y, spotify_tracks))

\* the entries of a queue that come from one platform, in order
From(q, platform) == LET of(t) == t.platform = platform IN SelectSeq(q, of)

\* C25: a background sync cycle in which the fetch of a source fails leaves
\* the catalog list of that source and the queue entries from that source as
\* they were.
C25_FailedFetchNoChange ==
    [][/\ YoutubeFetchFailed
             => (youtube_tracks' = youtube_tracks /\ From(queue', "youtube") = From(queue, "youtube"))
       /\ SpotifyFetchFailed
             => (spotify_tracks' = spotify_tracks /\ From(queue', "spotify") = From(queue, "spotify"))]_vars

\* C26: a sync cycle installs only tracks whose count, when the cycle runs,
\* is the minimum count over the catalog as it was before the swap (0 when
\* that catalog was empty), and only tracks that a fetch can have returned;
\* a track with any other count is not in the new catalog, and a track with
\* that count which is both at the provider and in the old list is.
C26_PreFilter ==
    [][(SyncStep /\ run' = run) =>
          LET m == MinCount(all_tracks, play_counts)
          IN /\ all_tracks = <<>> => m = 0
             /\ \A t \in Range(all_tracks') :
                   /\ Count(play_counts, t) = m
                   /\ t \in Range(yt_provider) \cup Range(sp_provider) \cup Range(all_tracks)
             /\ \A t \in Tracks : Count(play_counts, t) # m => t \notin Range(all_tracks')
             /\ \A t \in Range(yt_provider) \cap Range(youtube_tracks) :
                   Count(play_counts, t) = m => t \in Range(youtube_tracks')
             /\ \A t \in Range(sp_provider) \cap Range(spotify_tracks) :
                   Count(play_counts, t) = m => t \in Range(spotify_tracks')]_vars

\* a sync cycle has left a track of the youtube playlist out of the catalog
\* because its count is above the minimum, and kept the other one
C26_Witness ==
    /\ last.op = "sync"
    /\ yt_provider = <<TrackA, TrackB>>
    /\ youtube_tracks = <<TrackB>>
    /\ play_counts[TrackKey(TrackA)] = 1
    /\ play_counts[TrackKey(TrackB)] = 0
    /\ current_track_title = TrackA.title

\* the new track is shut out: it is at the provider and has never been
\* played, and every track of the catalog, which is not empty, has been played
Excluded ==
    /\ TrackB \in Range(yt_provider)
    /\ play_counts[TrackKey(TrackB)] = 0
    /\ all_tracks # <<>>
    /\ MinCount(all_tracks, play_counts) >= 1

\* a track that is shut out stays shut out, whatever is done next: no sync
\* cycle installs it and no advance() call changes that
ExclusionIsStable == [][Excluded => (Excluded' /\ TrackB \notin Range(all_tracks'))]_vars

C28_SyncNotifies ==
    [][SyncNotify =>
          IF last'.a + last'.b > 0 THEN probe'.out = <<queue'>> ELSE probe'.out = <<>>]_vars

\* C29: at most one platform is marked as playing, and the current platform
\* is the one that is marked.
C29_OneSession ==
    /\ ~(youtube_playing /\ spotify_playing)
    /\ youtube_playing => current_platform = "youtube"
    /\ spotify_playing => current_platform = "spotify"

\* the step started a track: a count of the ledger went up
Starts == play_counts' # play_counts

\* C30: the callback of a timer runs only when the wait of that timer is
\* over, and once: the timer is gone afterwards. It ends the session and
\* clears the timer before it starts the next track, so afterwards the
\* session fields and the timer describe the new track alone: one flag, the
\* platform and the title of the track played last, a countdown started now
\* when its duration is known and no timer at all when it is not; when
\* there was nothing to start, the session is idle and no timer is armed.
\* No step other than the callback and the advance() command starts a track.
C30_FireOrdering ==
    [][/\ \A id \in TimerIds :
             OnTrackEnd(id) =>
                /\ timers[id].st = "fired" /\ now >= timers[id].deadline
                /\ timers'[id].st = "free"
                /\ last'.op = "track_end"
                /\ ~autoplay_paused' /\ autoplay_remaining' = None
                /\ IF Starts
                   THEN /\ queue # <<>> => (last_played' = Head(queue) /\ queue' = Tail(queue))
                        /\ current_track_title' = last_played'.title
                        /\ current_platform' = last_played'.platform
                        /\ youtube_playing' = (last_played'.platform = "youtube")
                        /\ spotify_playing' = (last_played'.platform = "spotify")
                        /\ IF last_played'.duration = 0
                           THEN autoplay_timer' = NoTimer /\ \A i \in TimerIds : timers'[i].st # "waiting"
                           ELSE /\ autoplay_timer' # NoTimer
                                /\ autoplay_start_time' = now
                                /\ \A i \in TimerIds : timers'[i].st = "waiting" <=> i = autoplay_timer'
                   ELSE /\ queue = <<>> /\ all_tracks = <<>>
                        /\ current_track_title' = NoTitle /\ current_platform' = NoPlatform
                        /\ ~youtube_playing' /\ ~spotify_playing'
                        /\ autoplay_timer' = NoTimer
       /\ Starts => last'.op \in {"advance", "track_end"}
       /\ (last'.op = "track_end" /\ last' # last) => \E id \in TimerIds : timers[id].st = "fired"]_vars

\* the callback of the timer of A has started B, whose duration is unknown,
\* after C had been played before A: one flag is set and no timer is left
C30_Witness ==
    /\ last.op = "track_end"
    /\ last_played = TrackB
    /\ current_track_title = TrackB.title
    /\ youtube_playing /\ ~spotify_playing
    /\ autoplay_timer = NoTimer
    /\ \A id \in TimerIds : timers[id].st = "free"
    /\ play_counts[TrackKey(TrackC)] = 1
    /\ play_counts[TrackKey(TrackA)] = 1

\* the three lists of the catalog agree
Joined == all_tracks = youtube_tracks \o spotify_tracks

\* C31: whenever the lock is free the union catalog is the youtube list
\* followed by the spotify list, and a refill that reads the catalog inside
\* its with block never reads it between two of the three assignments.
C31_CatalogAtomic ==
    /\ lock = NoContext => Joined
    /\ \A c \in Contexts : pc[c] = "filling" => Joined

\* the refresh thread is between two of the three assignments, the lists
\* disagree, and the prompt is waiting for the lock to refill
C31_Witness ==
    /\ pc["refresh"] \in {"swap_spotify", "swap_all"}
    /\ lock = "refresh"
    /\ ~Joined
    /\ pc["main"] = "fill"

\* C32: no call to the display surface is made by a context that holds the
\* lock: every schedule_update is called after the release.
C32_NoCallUnderLock ==
    probe.fn = "schedule_update" => probe.out = <<FALSE>>

\* context c has reached a with statement and has not entered the block
Waiting(c) == pc[c] \in {"fill", "sync", "shuffle", "drag", "watch"}

\* context c is outside every with block
Outside(c) == pc[c] \notin {"filling", "syncing", "shuffling", "dragging", "poll", "menu", "scheduled"}

\* the prompt holds the lock inside update_menu_file and waits for the Tk
\* thread, and the Tk thread is inside a handler that waits for the lock
Embrace == pc["main"] = "menu" /\ lock = "main" /\ pc["gui"] \in {"shuffle", "drag", "watch"}

\* once the two wait for each other no step of the program ends it
EmbraceIsForever == [][Embrace => Embrace']_vars

\* C33: a context that asks for the lock does not hold it, a context that
\* has left its with block has released it, and every context that asks for
\* the lock (sync, refill, reorder, shuffle, display poll) gets it.
C33_LockIsAcquired ==
    /\ [](\A c \in Contexts : Outside(c) => lock # c)
    /\ \A c \in {"main", "refresh", "gui"} : Waiting(c) ~> (lock = c)

\* q is q0 with the element at from_idx moved to the end
MovedToEnd(q0, q, from_idx) == q = Append(Without(q0, from_idx), q0[from_idx + 1])

\* what reorder(from_idx, to_idx) makes of q0: nothing when from_idx is not
\* an index of q0; else the element goes to to_idx of the queue after the
\* removal, and to the end when to_idx is past it
Total(q0, q, from_idx, to_idx) ==
    IF from_idx < 0 \/ from_idx >= Len(q0) THEN q = q0
    ELSE IF to_idx = None \/ to_idx >= Len(q0) - 1 THEN MovedToEnd(q0, q, from_idx)
    ELSE RemovedThenInserted(q0, q, from_idx, to_idx)

\* C34: reorder is total: a target index past the end puts the element at
\* the end, a source index outside the queue leaves the queue as it is, the
\* moved element is never lost, and no reorder raises.
C34_ReorderIsTotal ==
    /\ [][(last' # last /\ last'.op = "drag") => Total(last'.q0, queue', last'.a, last'.b)]_vars
    /\ [](pc["main"] # "raised")

\* q holds every track of the catalog once
OncePerTrack(q, catalog) ==
    /\ Urls(q) = Urls(catalog)
    /\ \A k, l \in 1..Len(q) : q[k].url = q[l].url => k = l

\* C35: a shuffle only permutes, whatever sync cycles run beside it: when it
\* is over the queue holds what the sync cycles alone would have left in it
\* (here every catalog track once, nothing being played), none of its
\* exchanges is made on a list that is no longer the queue, and it changes
\* neither the catalog, the ledger, the session nor the timer.
C35_ShuffleOnlyPermutes ==
    /\ []((pc["main"] = "idle" /\ pc["refresh"] # "syncing" /\ Running) => OncePerTrack(queue, all_tracks))
    /\ [](~frame["main"].detached)
    /\ [][actor' = "main" => UNCHANGED <<catalogVars, play_counts, sessionVars, timerVars>>]_vars

\* C36: play_random_from_platform(platform) on an empty queue refills from
\* that platform's list only, so that when the list is not empty the track
\* it starts and the tracks it leaves in the queue are of that platform; on
\* a queue that is not empty it starts the head and adds nothing.
C36_ScopedAdvance ==
    [][AdvanceFromCall =>
          LET platform == probe'.args[1]
              slice == Slice(Self, platform)
          IN /\ (queue = <<>> /\ slice # <<>>) =>
                   /\ probe'.out[1].platform = platform
                   /\ Range(<<probe'.out[1]>> \o queue') \subseteq Range(slice)
             /\ queue # <<>> =>
                   /\ probe'.out = <<Head(queue)>>
                   /\ queue' = Tail(queue)]_vars

\* the queue was empty, the catalog held tracks of both platforms, and the
\* call for spotify started the spotify track
C36_Witness ==
    /\ probe = [fn |-> "play_random_from_platform", args |-> <<"spotify", TRUE>>, out |-> <<TrackC>>]
    /\ youtube_tracks # <<>>
    /\ last.op = "advance_from"

\* C37: paused and armed exclude each other: whenever no track start is
\* under way, a paused timer has no handle and no live countdown, and a
\* remaining time is held only while the timer is paused.
C37_PausedNotArmed ==
    pc["main"] = "idle" =>
       /\ autoplay_paused => (autoplay_timer = NoTimer /\ Live = {})
       /\ autoplay_remaining # None => autoplay_paused

\* C38: whenever the lock is free, every entry of the queue has the url of
\* a track of the union catalog.
C38_QueueWithinCatalog ==
    lock = NoContext => Urls(queue) \subseteq Urls(all_tracks)

\* C39: when a track has been started, whether its duration is known or
\* not, the timer is not paused and holds no remaining time.
C39_NoPauseCarried ==
    [][Starts => (~autoplay_paused' /\ autoplay_remaining' = None)]_vars
====
